---- MODULE Spec2Model ----
(***************************************************************************)
(* MOP3: a POP3/SMTP gateway in front of a social-network timeline.        *)
(*                                                                         *)
(* The module models the parts of the program, each with a                 *)
(* specification of its own:                                               *)
(*   SpecMain  - main(): Config::parse, Config::validate, the two          *)
(*               listeners and their accept loops (main.rs, config.rs);    *)
(*   SpecPop3  - one POP3 connection task: handle_pop3_connection,         *)
(*               get_pop3_login, convert_posts_to_emails and               *)
(*               handle_pop3_commands (pop3/server.rs);                    *)
(*   SpecSmtp  - one SMTP connection task: handle_smtp_connection          *)
(*               (smtp/server.rs);                                         *)
(*   SpecTasks - the listeners, a POP3 task and an SMTP task running       *)
(*               concurrently;                                             *)
(*   SpecHtml  - html_to_text (pop3/server.rs, pop3/converter.rs) applied  *)
(*               to a text;                                                *)
(*   SpecProxy - apply_proxy_to_links applied to a text.                   *)
(*                                                                         *)
(* Bytes.  What a socket read returns and what a write sends is a          *)
(* sequence of symbols.  A symbol is one byte ("CR", "LF", "SP", ".",      *)
(* "<", ">", a digit, a letter) or, in client commands, a word: a run of   *)
(* letters that holds no whitespace, dot, digit or angle bracket and that  *)
(* the code only ever compares as a whole ("QUIT", "alice").  Emails are   *)
(* built from one-byte symbols only, so Len(email) is String::len().       *)
(*                                                                         *)
(* Writes are taken to succeed: a failed write_all means the peer is gone  *)
(* and ends the task through `?`.                                          *)
(***************************************************************************)
EXTENDS Integers, Sequences, FiniteSets, TLC

VARIABLES
    cfg,            \* the Config (read-only after Config::parse)
    m_pc,           \* main(): "validate" | "spawn" | "select" | "exit_err"
    m_pop3,         \* POP3 listener: [bound, accepted]
    m_smtp,         \* SMTP listener: [bound, accepted]
    p_pc,           \* POP3 task: "banner" | "login" | "verify" | "fetch" | "transaction" | "closed"
    p_cred,         \* get_pop3_login's cred, then final_cred
    p_timeline,     \* the posts get_timeline returned
    p_emails,       \* the mailbox: emails of handle_pop3_commands
    p_post_size,    \* post_size of handle_pop3_connection
    p_in,           \* the bytes of the last read of the POP3 task
    p_out,          \* the writes the POP3 task made in its last step
    p_listed,       \* the <<index, size>> pairs of the most recent LIST reply
    s_pc,           \* SMTP task: "greet" | "command" | "data" | "closed"
    s_from,         \* `from` of handle_smtp_connection
    s_email_data,   \* `email_data` of the DATA loop, kept until the next read
                    \* of the command loop so that what was stored can be seen
    s_rx,           \* the bytes read since DATA was answered 354
    s_reads,        \* the number of reads the DATA loop has made
    s_in,           \* the bytes of the last read of the SMTP task
    s_out,          \* the writes the SMTP task made in its last step
    s_published,    \* the texts the SMTP task has passed to post_status
    s_mail,         \* a MAIL command was read since the greeting, the last RSET or the last message
    c_fn,           \* content conversion: the function applied, or "none"
    c_in,           \* its input text
    c_arg,          \* its second argument (the proxy prefix), or <<>>
    c_out,          \* its result
    p_peer,         \* the POP3 client's side of the connection: "open" | "closed"
    s_peer          \* the SMTP client's side of the connection: "open" | "closed"

mainVars == <<m_pc, m_pop3, m_smtp>>
pop3Vars == <<p_pc, p_cred, p_timeline, p_emails, p_post_size, p_in, p_out, p_listed>>
smtpVars ==
    <<s_pc, s_from, s_email_data, s_rx, s_reads, s_in, s_out, s_published,
      s_mail>>
convVars == <<c_fn, c_in, c_arg, c_out>>
peerVars == <<p_peer, s_peer>>
vars == <<cfg, mainVars, pop3Vars, smtpVars, convVars, peerVars>>

(***************************************************************************)
(* Bounds of the model.                                                    *)
(***************************************************************************)
MaxPosts == 2
MaxTopLines == 3
MaxDataReads == 3
MaxConns == 2
MaxPieces == 3
MaxMedia == 2

(***************************************************************************)
(* Bytes, tokens and lines.                                                *)
(***************************************************************************)
CR == "CR"
LF == "LF"
SP == "SP"
TAB == "TAB"
CRLF == <<CR, LF>>

\* char::is_whitespace for the bytes of the model
is_whitespace(c) == c \in {SP, TAB, CR, LF}

RECURSIVE SplitWs(_, _, _)
SplitWs(s, cur, acc) ==
    IF s = <<>>
    THEN IF cur = <<>> THEN acc ELSE Append(acc, cur)
    ELSE IF is_whitespace(Head(s))
         THEN SplitWs(Tail(s), <<>>, IF cur = <<>> THEN acc ELSE Append(acc, cur))
         ELSE SplitWs(Tail(s), Append(cur, Head(s)), acc)

\* str::split_whitespace: the maximal runs of non-whitespace, in order
split_whitespace(s) == SplitWs(s, <<>>, <<>>)

RECURSIVE TrimStart(_)
TrimStart(s) ==
    IF s # <<>> /\ is_whitespace(Head(s)) THEN TrimStart(Tail(s)) ELSE s

RECURSIVE TrimEnd(_)
TrimEnd(s) ==
    IF s # <<>> /\ is_whitespace(s[Len(s)])
    THEN TrimEnd(SubSeq(s, 1, Len(s) - 1))
    ELSE s

\* str::trim
trim(s) == TrimEnd(TrimStart(s))

StripCR(l) ==
    IF l # <<>> /\ l[Len(l)] = CR THEN SubSeq(l, 1, Len(l) - 1) ELSE l

RECURSIVE LinesLoop(_, _, _)
LinesLoop(s, cur, acc) ==
    IF s = <<>>
    THEN IF cur = <<>> THEN acc ELSE Append(acc, cur)
    ELSE IF Head(s) = LF
         THEN LinesLoop(Tail(s), <<>>, Append(acc, StripCR(cur)))
         ELSE LinesLoop(Tail(s), Append(cur, Head(s)), acc)

\* str::lines: split at LF, a CR before the LF dropped, no empty last line
lines(s) == LinesLoop(s, <<>>, <<>>)

RECURSIVE Concat(_)
Concat(ss) == IF ss = <<>> THEN <<>> ELSE Head(ss) \o Concat(Tail(ss))

RECURSIVE SumLen(_)
SumLen(ss) == IF ss = <<>> THEN 0 ELSE Len(Head(ss)) + SumLen(Tail(ss))

\* a line with its CRLF; a text of CRLF-terminated lines
Ln(l) == l \o CRLF
Text(ls) == Concat([i \in 1..Len(ls) |-> Ln(ls[i])])

(***************************************************************************)
(* Option and Result values.                                               *)
(***************************************************************************)
Some(v) == [some |-> TRUE, v |-> v]
NoneOpt == [some |-> FALSE, v |-> <<>>]
Ok(v) == [ok |-> TRUE, v |-> v]
Err == [ok |-> FALSE, v |-> 0]

\* Iterator::next on the token iterator, n-th call
next_part(parts, n) == IF n <= Len(parts) THEN Some(parts[n]) ELSE NoneOpt

(***************************************************************************)
(* str::parse::<usize>.  A token parses when it is a non-empty run of      *)
(* decimal digits whose value is at most usize::MAX (64-bit target);       *)
(* anything else is Err (InvalidDigit, Empty or PosOverflow).  The value   *)
(* is computed only for numerals the inputs of the model hold: those of    *)
(* fewer than 10 digits.                                                   *)
(***************************************************************************)
Digits == {"0", "1", "2", "3", "4", "5", "6", "7", "8", "9"}

DigitVal(c) ==
    CASE c = "0" -> 0 [] c = "1" -> 1 [] c = "2" -> 2 [] c = "3" -> 3
      [] c = "4" -> 4 [] c = "5" -> 5 [] c = "6" -> 6 [] c = "7" -> 7
      [] c = "8" -> 8 [] c = "9" -> 9

\* usize::MAX = 18446744073709551615, digit by digit
UsizeMaxDigits ==
    <<1, 8, 4, 4, 6, 7, 4, 4, 0, 7, 3, 7, 0, 9, 5, 5, 1, 6, 1, 5>>

IsDigits(tok) == tok # <<>> /\ \A i \in 1..Len(tok) : tok[i] \in Digits

RECURSIVE StripZeros(_)
StripZeros(ds) ==
    IF Len(ds) > 1 /\ Head(ds) = 0 THEN StripZeros(Tail(ds)) ELSE ds

RECURSIVE LexGreater(_, _)
LexGreater(a, b) ==
    IF a = <<>> THEN FALSE
    ELSE IF Head(a) # Head(b) THEN Head(a) > Head(b)
    ELSE LexGreater(Tail(a), Tail(b))

\* the numeral exceeds usize::MAX
PosOverflow(ds) ==
    LET d == StripZeros(ds) IN
    \/ Len(d) > Len(UsizeMaxDigits)
    \/ Len(d) = Len(UsizeMaxDigits) /\ LexGreater(d, UsizeMaxDigits)

RECURSIVE DecValue(_, _)
DecValue(ds, acc) ==
    IF ds = <<>> THEN acc ELSE DecValue(Tail(ds), 10 * acc + Head(ds))

parse_usize(tok) ==
    IF ~IsDigits(tok) THEN Err
    ELSE LET ds == [i \in 1..Len(tok) |-> DigitVal(tok[i])] IN
         IF PosOverflow(ds) THEN Err ELSE Ok(DecValue(ds, 0))

(***************************************************************************)
(* Writes.  A status line is its format string and the numbers formatted   *)
(* into it; message content and the terminators are raw bytes.             *)
(***************************************************************************)
W(fmt, args) == [fmt |-> fmt, args |-> args, raw |-> <<>>]
Raw(bytes) == [fmt |-> "raw", args |-> <<>>, raw |-> bytes]

POP3_BANNER == W("+OK MOP3 ready", <<>>)
POP3_OK_MESSAGES_FETCHED == W("+OK MOP3 READY, MESSAGES FETCHED", <<>>)
DotCRLF == Raw(<<".">> \o CRLF)
CRLFDotCRLF == Raw(CRLF \o <<".">> \o CRLF)
ErrNoSuchMessage == W("-ERR no such message", <<>>)
ErrUnknownCommand == W("-ERR unknown command", <<>>)
OkBye == W("+OK bye", <<>>)

(***************************************************************************)
(* Posts and their conversion (convert_posts_to_emails).  MessageBuilder   *)
(* is a library: what it renders for a post is a fixed RFC822 text per     *)
(* content (headers, a blank line, the body, every line ending in CRLF),   *)
(* and write_to_string either succeeds or fails.                           *)
(***************************************************************************)
Contents == 1..2

Mastodon(c, ok) == [variant |-> "Mastodon", content |-> c, write_ok |-> ok]
Bluesky == [variant |-> "Bluesky", content |-> 1, write_ok |-> TRUE]

Posts ==
    {Mastodon(c, TRUE) : c \in Contents} \cup {Mastodon(1, FALSE), Bluesky}

\* the text MessageBuilder::write_to_string returns
Rendered(c) ==
    CASE c = 1 -> Text(<< <<"S", "S">>, <<>> >>)
      [] c = 2 -> Text(<< <<"S">>, <<"M">>, <<>>, <<".">>, <<"z">>, <<>>, <<"w">> >>)

convert_mastodon_post_to_email(post) ==
    IF post.write_ok THEN Ok(Rendered(post.content)) ELSE Err

RECURSIVE convert_posts_to_emails(_)
\* convert_posts_to_emails with a slip: a failed conversion ends the loop,
\* the posts after it are lost
RECURSIVE convert_posts_to_emails_stopping(_)
convert_posts_to_emails_stopping(posts) ==
    IF posts = <<>> THEN <<>>
    ELSE LET post == Head(posts)
             rest == convert_posts_to_emails_stopping(Tail(posts))
         IN IF post.variant = "Mastodon"
            THEN LET r == convert_mastodon_post_to_email(post) IN
                 IF r.ok THEN <<r.v>> \o rest ELSE <<>>
            ELSE rest

\* convert_posts_to_emails with a slip: a Bluesky post is converted as well
RECURSIVE convert_posts_to_emails_every_variant(_)
convert_posts_to_emails_every_variant(posts) ==
    IF posts = <<>> THEN <<>>
    ELSE LET post == Head(posts)
             rest == convert_posts_to_emails_every_variant(Tail(posts))
             r == convert_mastodon_post_to_email(post)
         IN IF r.ok THEN <<r.v>> \o rest ELSE rest

convert_posts_to_emails(posts) ==
    IF posts = <<>> THEN <<>>
    ELSE LET post == Head(posts)
             rest == convert_posts_to_emails(Tail(posts))
         IN IF post.variant = "Mastodon"
            THEN LET r == convert_mastodon_post_to_email(post) IN
                 IF r.ok THEN <<r.v>> \o rest ELSE rest
            ELSE rest

\* post_size_of with a slip: the sum counts a CRLF.CRLF per message
post_size_with_terminators(emails) == SumLen(emails) + 5 * Len(emails)

\* let post_size: usize = emails.iter().map(|e| e.len()).sum();
post_size_of(emails) == SumLen(emails)

RECURSIVE SeqsUpTo(_, _)
SeqsUpTo(S, n) ==
    IF n = 0 THEN {<<>>}
    ELSE LET shorter == SeqsUpTo(S, n - 1) IN
         shorter \cup {Append(t, x) : t \in {u \in shorter : Len(u) = n - 1}, x \in S}

\* what get_timeline can return
Timelines == SeqsUpTo(Posts, MaxPosts)

(***************************************************************************)
(* get_pop3_login: one iteration of its loop on the bytes of one read.     *)
(* ret is "loop" (keep reading), "ok" (return Ok(cred)) or "err" (return   *)
(* Err: the task ends).                                                    *)
(***************************************************************************)
Credentials(u, p) == [username |-> u, password |-> p]

\* Some("QUIT"): +OK bye, return Err("User quit")
login_quit(cred) == [cred |-> cred, out |-> <<OkBye>>, ret |-> "err"]

\* login_unknown with a slip: the verb is answered +OK
login_unknown_ok(cred) == [cred |-> cred, out |-> <<W("+OK", <<>>)>>, ret |-> "loop"]

\* the `_` arm: -ERR unknown command, and the loop goes on
login_unknown(cred) == [cred |-> cred, out |-> <<ErrUnknownCommand>>, ret |-> "loop"]

\* get_pop3_login with a slip: a USER that follows a PASS completes the login
get_pop3_login_completes_at_user(cred, command) ==
    LET parts == split_whitespace(command)
        verb == next_part(parts, 1)
        arg == next_part(parts, 2)
    IN
    IF verb = Some(<<"USER">>) THEN
        IF arg.some
        THEN LET c == [cred EXCEPT !.username = arg.v] IN
             [cred |-> c, out |-> <<W("+OK send PASS", <<>>)>>,
              ret |-> IF c.password # <<>> THEN "ok" ELSE "loop"]
        ELSE [cred |-> cred, out |-> <<>>, ret |-> "loop"]
    ELSE IF verb = Some(<<"PASS">>) THEN
        IF arg.some
        THEN LET c == [cred EXCEPT !.password = arg.v] IN
             [cred |-> c, out |-> <<>>,
              ret |-> IF c.username # <<>> /\ c.password # <<>> THEN "ok" ELSE "loop"]
        ELSE [cred |-> cred, out |-> <<>>, ret |-> "loop"]
    ELSE IF verb = Some(<<"QUIT">>) THEN login_quit(cred)
    ELSE login_unknown(cred)

get_pop3_login(cred, command) ==
    LET parts == split_whitespace(command)
        verb == next_part(parts, 1)
        arg == next_part(parts, 2)
    IN
    IF verb = Some(<<"USER">>) THEN
        IF arg.some
        THEN [cred |-> [cred EXCEPT !.username = arg.v],
              out |-> <<W("+OK send PASS", <<>>)>>, ret |-> "loop"]
        ELSE [cred |-> cred, out |-> <<>>, ret |-> "loop"]
    ELSE IF verb = Some(<<"PASS">>) THEN
        IF arg.some
        THEN LET c == [cred EXCEPT !.password = arg.v] IN
             [cred |-> c, out |-> <<>>,
              ret |-> IF c.username # <<>> /\ c.password # <<>> THEN "ok" ELSE "loop"]
        ELSE [cred |-> cred, out |-> <<>>, ret |-> "loop"]
    ELSE IF verb = Some(<<"QUIT">>) THEN login_quit(cred)
    ELSE login_unknown(cred)

\* final_cred with a slip: what the client sent is kept
final_cred_client_wins(cred, config) == cred

\* final_cred: the configured account and token win over the client's
final_cred(cred, config) ==
    [username |-> IF config.account.some THEN config.account.v ELSE cred.username,
     password |-> IF config.token.some THEN config.token.v ELSE cred.password]

(***************************************************************************)
(* handle_pop3_commands: the arms of its match, each giving the writes.    *)
(***************************************************************************)
InRange(index, emails) == index > 0 /\ index <= Len(emails)

cmd_stat(emails, post_size) == <<W("+OK {} {}", <<Len(emails), post_size>>)>>

\* cmd_list with a slip: every size counts the CRLF RETR writes after the message
cmd_list_counting_crlf(parts, emails) ==
    LET index_str == next_part(parts, 2) IN
    IF index_str.some THEN
        LET index == parse_usize(index_str.v) IN
        IF index.ok THEN
            IF InRange(index.v, emails)
            THEN <<W("+OK {} {}", <<index.v, Len(emails[index.v]) + Len(CRLF)>>)>>
            ELSE <<ErrNoSuchMessage>>
        ELSE <<W("-ERR invalid message number", <<>>)>>
    ELSE <<W("+OK {} messages", <<Len(emails)>>)>>
         \o [i \in 1..Len(emails) |-> W("{} {}", <<i, Len(emails[i]) + Len(CRLF)>>)]
         \o <<DotCRLF>>

cmd_list(parts, emails) ==
    LET index_str == next_part(parts, 2) IN
    IF index_str.some THEN
        LET index == parse_usize(index_str.v) IN
        IF index.ok THEN
            IF InRange(index.v, emails)
            THEN <<W("+OK {} {}", <<index.v, Len(emails[index.v])>>)>>
            ELSE <<ErrNoSuchMessage>>
        ELSE <<W("-ERR invalid message number", <<>>)>>
    ELSE <<W("+OK {} messages", <<Len(emails)>>)>>
         \o [i \in 1..Len(emails) |-> W("{} {}", <<i, Len(emails[i])>>)]
         \o <<DotCRLF>>

\* cmd_retr with a slip: one error reply for every index it cannot serve
cmd_retr_one_error(parts, emails) ==
    LET index_str == next_part(parts, 2) IN
    IF index_str.some THEN
        LET index == parse_usize(index_str.v) IN
        IF index.ok /\ InRange(index.v, emails)
        THEN LET email == emails[index.v] IN
             <<W("+OK {} octets", <<Len(email)>>), Raw(email), CRLFDotCRLF>>
        ELSE <<W("-ERR invalid message number", <<>>)>>
    ELSE <<W("-ERR no message specified", <<>>)>>

cmd_retr(parts, emails) ==
    LET index_str == next_part(parts, 2) IN
    IF index_str.some THEN
        LET index == parse_usize(index_str.v) IN
        IF index.ok THEN
            IF InRange(index.v, emails)
            THEN LET email == emails[index.v] IN
                 <<W("+OK {} octets", <<Len(email)>>), Raw(email), CRLFDotCRLF>>
            ELSE <<ErrNoSuchMessage>>
        ELSE <<W("-ERR invalid message number", <<>>)>>
    ELSE <<W("-ERR no message specified", <<>>)>>

\* top_loop with a slip: line_count is never incremented
RECURSIVE top_loop_no_count(_, _, _, _, _)
top_loop_no_count(ls, n, line_count, in_body, output) ==
    IF ls = <<>> THEN output
    ELSE LET line == Head(ls)
             body == in_body \/ line = <<>>
         IN IF body /\ line_count >= n
            THEN output
            ELSE top_loop_no_count(Tail(ls), n, line_count, body, output \o line \o CRLF)

RECURSIVE top_loop(_, _, _, _, _)
top_loop(ls, n, line_count, in_body, output) ==
    IF ls = <<>> THEN output
    ELSE LET line == Head(ls)
             body == in_body \/ line = <<>>
         IN IF body /\ line_count >= n
            THEN output
            ELSE top_loop(Tail(ls), n,
                          IF body THEN line_count + 1 ELSE line_count,
                          body, output \o line \o CRLF)

cmd_top(parts, emails) ==
    LET msg_str == next_part(parts, 2)
        lines_str == next_part(parts, 3)
    IN
    IF msg_str.some /\ lines_str.some THEN
        LET msg == parse_usize(msg_str.v)
            n == parse_usize(lines_str.v)
        IN
        IF msg.ok /\ n.ok THEN
            IF InRange(msg.v, emails)
            THEN LET output == top_loop(lines(emails[msg.v]), n.v, 0, FALSE, <<>>) IN
                 <<W("+OK {} octets", <<Len(output)>>), Raw(output), DotCRLF>>
            ELSE <<ErrNoSuchMessage>>
        ELSE <<W("-ERR invalid parameters", <<>>)>>
    ELSE <<W("-ERR missing parameters", <<>>)>>

cmd_uidl(parts, emails) ==
    LET index_str == next_part(parts, 2) IN
    IF index_str.some THEN
        LET index == parse_usize(index_str.v) IN
        IF index.ok THEN
            IF InRange(index.v, emails)
            THEN <<W("+OK {} msg-{}", <<index.v, index.v>>)>>
            ELSE <<ErrNoSuchMessage>>
        ELSE <<W("-ERR invalid message number", <<>>)>>
    ELSE <<W("+OK", <<>>)>>
         \o [i \in 1..Len(emails) |-> W("{} msg-{}", <<i, i>>)]
         \o <<DotCRLF>>

CapaReply ==
    <<W("+OK Capability list follows", <<>>), W("USER", <<>>), W("TOP", <<>>),
      W("UIDL", <<>>), DotCRLF>>

\* cmd_quit with a slip: the reply is written and the loop goes on
cmd_quit_no_break == [out |-> <<OkBye>>, brk |-> FALSE]

\* cmd_unknown with a slip: the unknown verb ends the loop
cmd_unknown_breaks == [out |-> <<ErrUnknownCommand>>, brk |-> TRUE]

\* Some("QUIT"): +OK bye, break
cmd_quit == [out |-> <<OkBye>>, brk |-> TRUE]

\* the `_` arm: -ERR unknown command, and the loop goes on
cmd_unknown == [out |-> <<ErrUnknownCommand>>, brk |-> FALSE]

\* one iteration of the loop on the bytes of one read: the writes, and
\* whether the loop breaks
handle_pop3_commands(command, emails, post_size) ==
    LET parts == split_whitespace(command)
        verb == next_part(parts, 1)
    IN
    IF verb = Some(<<"STAT">>) THEN [out |-> cmd_stat(emails, post_size), brk |-> FALSE]
    ELSE IF verb = Some(<<"LIST">>) THEN [out |-> cmd_list(parts, emails), brk |-> FALSE]
    ELSE IF verb = Some(<<"RETR">>) THEN [out |-> cmd_retr(parts, emails), brk |-> FALSE]
    ELSE IF verb = Some(<<"DELE">>) THEN [out |-> <<W("+OK", <<>>)>>, brk |-> FALSE]
    ELSE IF verb = Some(<<"QUIT">>) THEN cmd_quit
    ELSE IF verb = Some(<<"CAPA">>) THEN [out |-> CapaReply, brk |-> FALSE]
    ELSE IF verb = Some(<<"NOOP">>) THEN [out |-> <<W("+OK", <<>>)>>, brk |-> FALSE]
    ELSE IF verb = Some(<<"RSET">>) THEN [out |-> <<W("+OK", <<>>)>>, brk |-> FALSE]
    ELSE IF verb = Some(<<"TOP">>) THEN [out |-> cmd_top(parts, emails), brk |-> FALSE]
    ELSE IF verb = Some(<<"UIDL">>) THEN [out |-> cmd_uidl(parts, emails), brk |-> FALSE]
    ELSE cmd_unknown

(***************************************************************************)
(* Content conversion: html_to_text and apply_proxy_to_links.  A text is   *)
(* a sequence of symbols: the characters "<", ">", "/", "&", ";", "]",     *)
(* "[", "(", ")", the double quote and the apostrophe, the whitespace of   *)
(* the model, and words.  A word is a run of characters none of which is   *)
(* one of those ("p", "br", "amp", "#39", "Hello", "a.com/path");          *)
(* "http://" and "https://" are words too, and the only places where a     *)
(* text holds these characters.                                            *)
(***************************************************************************)
DQUOTE == "\""
APOSTROPHE == "'"

Tag(name) == <<"<">> \o name \o <<">">>
Entity(name) == <<"&", name, ";">>

\* str::replace: every non-overlapping match of pat, from the left
RECURSIVE replace(_, _, _)
replace(s, pat, rep) ==
    IF Len(s) < Len(pat) THEN s
    ELSE IF SubSeq(s, 1, Len(pat)) = pat
         THEN rep \o replace(SubSeq(s, Len(pat) + 1, Len(s)), pat, rep)
         ELSE <<Head(s)>> \o replace(Tail(s), pat, rep)

\* a chain of .replace(pat, rep) calls, in the order written
RECURSIVE replace_chain(_, _)
replace_chain(s, pairs) ==
    IF pairs = <<>> THEN s
    ELSE replace_chain(replace(s, Head(pairs)[1], Head(pairs)[2]), Tail(pairs))

\* the first position from i on at which s holds c, or 0
RECURSIVE IndexOf(_, _, _)
IndexOf(s, c, i) ==
    IF i > Len(s) THEN 0 ELSE IF s[i] = c THEN i ELSE IndexOf(s, c, i + 1)

\* Regex::new(r"<[^>]*>") ... replace_all(text, ""): from the left, a "<"
\* and everything up to the next ">" is removed
RECURSIVE strip_tags(_)
\* strip_tags with a slip: replace instead of replace_all, only the first
\* tag is removed
strip_tags_first_only(s) ==
    LET i == IndexOf(s, "<", 1)
        j == IF i = 0 THEN 0 ELSE IndexOf(s, ">", i + 1)
    IN IF j = 0 THEN s
       ELSE SubSeq(s, 1, i - 1) \o SubSeq(s, j + 1, Len(s))

strip_tags(s) ==
    IF s = <<>> THEN <<>>
    ELSE IF Head(s) = "<"
         THEN LET j == IndexOf(s, ">", 2) IN
              IF j = 0 THEN s ELSE strip_tags(SubSeq(s, j + 1, Len(s)))
         ELSE <<Head(s)>> \o strip_tags(Tail(s))

\* html_to_text of pop3/server.rs, the one convert_mastodon_post_to_email
\* calls
html_to_text(html) ==
    replace_chain(strip_tags(html),
        << <<Entity("lt"), <<"<">> >>,
           <<Entity("gt"), <<">">> >>,
           <<Entity("amp"), <<"&">> >>,
           <<Entity("quot"), <<DQUOTE>> >>,
           <<Entity("apos"), <<APOSTROPHE>> >>,
           <<Entity("#39"), <<APOSTROPHE>> >>,
           <<Tag(<<"br">>), <<LF>> >>,
           <<Tag(<<"br", "/">>), <<LF>> >>,
           <<Tag(<<"br", SP, "/">>), <<LF>> >>,
           <<Tag(<<"p">>), <<>> >>,
           << <<"https://">>, <<LF, "https://">> >>,
           <<Tag(<<"/", "p">>), <<LF>> >> >>)

\* .collect::<Vec<_>>().join("\n")
RECURSIVE JoinLines(_)
JoinLines(ls) ==
    IF ls = <<>> THEN <<>>
    ELSE IF Len(ls) = 1 THEN Head(ls)
    ELSE Head(ls) \o <<LF>> \o JoinLines(Tail(ls))

\* html_to_text of pop3/converter.rs
converter_html_to_text(html) ==
    LET breaks == replace_chain(html,
                     << <<Tag(<<"br">>), <<LF>> >>,
                        <<Tag(<<"br", "/">>), <<LF>> >>,
                        <<Tag(<<"br", SP, "/">>), <<LF>> >>,
                        <<Tag(<<"/", "p">>), <<LF>> >>,
                        <<Tag(<<"/", "div">>), <<LF>> >>,
                        <<Tag(<<"/", "li">>), <<LF>> >> >>)
        decoded == replace_chain(strip_tags(breaks),
                     << <<Entity("lt"), <<"<">> >>,
                        <<Entity("gt"), <<">">> >>,
                        <<Entity("amp"), <<"&">> >>,
                        <<Entity("quot"), <<DQUOTE>> >>,
                        <<Entity("apos"), <<APOSTROPHE>> >>,
                        <<Entity("#39"), <<APOSTROPHE>> >>,
                        <<Entity("nbsp"), <<SP>> >> >>)
        ls == lines(decoded)
        trimmed == JoinLines([i \in 1..Len(ls) |-> TrimEnd(ls[i])])
    IN trim(replace(trimmed, <<LF, LF, LF>>, <<LF, LF>>))

\* the regex https?://[^\s\]<>]+ of apply_proxy_to_links
Schemes == {"http://", "https://"}
\* UrlChar with a slip: only whitespace ends a URL
UrlChar_whitespace_only(c) == ~is_whitespace(c)

UrlChar(c) == ~is_whitespace(c) /\ c \notin {"]", "<", ">"}

\* the last position of the run of UrlChars that starts at i
RECURSIVE UrlEnd(_, _)
UrlEnd(s, i) ==
    IF i < Len(s) /\ UrlChar(s[i + 1]) THEN UrlEnd(s, i + 1) ELSE i

\* replace_all(content, |caps| format!("{}{}", proxy, &caps[0]))
RECURSIVE apply_proxy_to_links(_, _)
apply_proxy_to_links(content, proxy) ==
    IF content = <<>> THEN <<>>
    ELSE IF Head(content) \in Schemes /\ Len(content) >= 2 /\ UrlChar(content[2])
         THEN LET e == UrlEnd(content, 2) IN
              proxy \o SubSeq(content, 1, e)
                    \o apply_proxy_to_links(SubSeq(content, e + 1, Len(content)), proxy)
         ELSE <<Head(content)>> \o apply_proxy_to_links(Tail(content), proxy)

(***************************************************************************)
(* The Config and Config::validate.  An Option<String> field is Some of    *)
(* its bytes or NoneOpt.                                                   *)
(***************************************************************************)
Configs ==
    [account : {NoneOpt, Some(<<"bob">>)},
     token : {NoneOpt, Some(<<"tok">>)},
     nosmtp : BOOLEAN,
     attachment : BOOLEAN,
     inline : BOOLEAN]

\* validate with a slip: the check of attachment and inline is missing
validate_token_only(config) ==
    IF ~config.nosmtp /\ ~config.token.some THEN Err ELSE Ok(0)

\* validate with a slip: the check of nosmtp and token is missing
validate_media_only(config) ==
    IF config.attachment /\ config.inline THEN Err ELSE Ok(0)

validate(config) ==
    IF ~config.nosmtp /\ ~config.token.some THEN Err
    ELSE IF config.attachment /\ config.inline THEN Err
    ELSE Ok(0)

(***************************************************************************)
(* What the client of a POP3 connection sends, read by read.               *)
(***************************************************************************)
RECURSIVE Join(_)
Join(toks) ==
    IF toks = <<>> THEN <<>>
    ELSE IF Len(toks) = 1 THEN Head(toks)
    ELSE Head(toks) \o <<SP>> \o Join(Tail(toks))

\* one command line: its tokens, a space between them, CRLF
Cmd(toks) == Ln(Join(toks))

DigitChar(d) ==
    CASE d = 0 -> "0" [] d = 1 -> "1" [] d = 2 -> "2" [] d = 3 -> "3"
      [] d = 4 -> "4" [] d = 5 -> "5" [] d = 6 -> "6" [] d = 7 -> "7"
      [] d = 8 -> "8" [] d = 9 -> "9"

RECURSIVE Decimal(_)
Decimal(n) ==
    IF n < 10 THEN <<DigitChar(n)>>
    ELSE Decimal(n \div 10) \o <<DigitChar(n % 10)>>

\* the numeral 18446744073709551616 = usize::MAX + 1
Huge ==
    [i \in 1..Len(UsizeMaxDigits) |->
        DigitChar(IF i = Len(UsizeMaxDigits) THEN 6 ELSE UsizeMaxDigits[i])]

Indices == 0..(MaxPosts + 1)
IndexToks == {Decimal(i) : i \in Indices} \cup {Huge, <<"abc">>}

LoginReads ==
    {Cmd(<< <<"USER">>, <<"alice">> >>), Cmd(<< <<"USER">> >>),
     Cmd(<< <<"PASS">>, <<"secret">> >>), Cmd(<< <<"PASS">> >>),
     Cmd(<< <<"QUIT">> >>), Cmd(<< <<"STAT">> >>), Cmd(<< <<"XYZZY">> >>),
     CRLF,
     Cmd(<< <<"USER">>, <<"alice">> >>) \o Cmd(<< <<"PASS">>, <<"secret">> >>)}
    \cup {Cmd(<< <<v>> >>) : v \in {"LIST", "UIDL", "CAPA", "NOOP", "RSET"}}
    \cup {Cmd(<< <<v>>, Decimal(1) >>) : v \in {"RETR", "DELE"}}
    \cup {Cmd(<< <<"TOP">>, Decimal(1), Decimal(0) >>)}

TransactionReads ==
    {Cmd(<< <<v>> >>) :
        v \in {"STAT", "LIST", "RETR", "DELE", "QUIT", "CAPA", "NOOP", "RSET",
               "TOP", "UIDL", "XYZZY", "USER", "PASS", "quit"}}
    \cup {Cmd(<< <<v>>, a >>) : v \in {"LIST", "RETR"}, a \in IndexToks}
    \cup {Cmd(<< <<v>>, a >>) : v \in {"UIDL", "TOP", "DELE"}, a \in {Decimal(0), Decimal(1), <<"abc">>}}
    \cup {Cmd(<< <<"TOP">>, Decimal(i), Decimal(n) >>) : i \in Indices, n \in 0..MaxTopLines}
    \cup {Cmd(<< <<"TOP">>, Decimal(1), a >>) : a \in {Huge, <<"abc">>}}
    \cup {CRLF, Cmd(<< <<"NOOP">> >>) \o Cmd(<< <<"QUIT">> >>)}

(***************************************************************************)
(* The POP3 connection task: handle_pop3_connection.                       *)
(***************************************************************************)
\* the <<index, size>> pairs a LIST reply reports
ListedIn(out) ==
    {<<out[k].args[1], out[k].args[2]>> :
        k \in {j \in 1..Len(out) : out[j].fmt \in {"+OK {} {}", "{} {}"}}}

\* what a step of the POP3 task leaves alone
Pop3Frame == UNCHANGED <<cfg, mainVars, smtpVars, convVars, peerVars>>

Pop3Init ==
    /\ p_pc = "banner"
    /\ p_cred = Credentials(<<>>, <<>>)
    /\ p_timeline = <<>>
    /\ p_emails = <<>>
    /\ p_post_size = 0
    /\ p_in = <<>>
    /\ p_out = <<>>
    /\ p_listed = {}

\* stream.write_all(POP3_BANNER)
Pop3Banner ==
    /\ p_pc = "banner"
    /\ p_pc' = "login"
    /\ p_out' = <<POP3_BANNER>>
    /\ UNCHANGED <<p_cred, p_timeline, p_emails, p_post_size, p_in, p_listed>>
    /\ Pop3Frame

\* get_pop3_login reads n > 0 bytes
Pop3LoginRead ==
    /\ p_pc = "login"
    /\ \E command \in LoginReads :
         LET r == get_pop3_login(p_cred, command) IN
         /\ p_in' = command
         /\ p_out' = r.out
         /\ p_cred' = IF r.ret = "ok" THEN final_cred(r.cred, cfg) ELSE r.cred
         /\ p_pc' = CASE r.ret = "ok" -> "verify"
                      [] r.ret = "err" -> "closed"
                      [] OTHER -> "login"
    /\ UNCHANGED <<p_timeline, p_emails, p_post_size, p_listed>>
    /\ Pop3Frame

\* get_pop3_login reads n == 0: Err("Connection closed")
Pop3LoginEof ==
    /\ p_pc = "login"
    /\ p_pc' = "closed"
    /\ p_in' = <<>>
    /\ p_out' = <<>>
    /\ UNCHANGED <<p_cred, p_timeline, p_emails, p_post_size, p_listed>>
    /\ Pop3Frame

\* verify_credentials returns Ok(account_addr)
Pop3VerifyOk ==
    /\ p_pc = "verify"
    /\ p_pc' = "fetch"
    /\ p_in' = <<>>
    /\ p_out' = <<>>
    /\ UNCHANGED <<p_cred, p_timeline, p_emails, p_post_size, p_listed>>
    /\ Pop3Frame

\* Pop3VerifyErr with a slip: the error of the connection task reaches the
\* accept loop and ends the listener
Pop3VerifyErr_ends_listener ==
    /\ p_pc = "verify"
    /\ p_pc' = "closed"
    /\ p_in' = <<>>
    /\ p_out' = <<W("-ERR Invalid credentials", <<>>)>>
    /\ m_pop3' = [m_pop3 EXCEPT !.st = "failed"]
    /\ UNCHANGED <<p_cred, p_timeline, p_emails, p_post_size, p_listed>>
    /\ UNCHANGED <<cfg, m_pc, m_smtp, smtpVars, convVars, peerVars>>

\* Pop3VerifyErr with a slip: after the -ERR the client may log in again
Pop3VerifyErr_retries ==
    /\ p_pc = "verify"
    /\ p_pc' = "login"
    /\ p_in' = <<>>
    /\ p_out' = <<W("-ERR Invalid credentials", <<>>)>>
    /\ UNCHANGED <<p_cred, p_timeline, p_emails, p_post_size, p_listed>>
    /\ Pop3Frame

\* verify_credentials returns Err
Pop3VerifyErr ==
    /\ p_pc = "verify"
    /\ p_pc' = "closed"
    /\ p_in' = <<>>
    /\ p_out' = <<W("-ERR Invalid credentials", <<>>)>>
    /\ UNCHANGED <<p_cred, p_timeline, p_emails, p_post_size, p_listed>>
    /\ Pop3Frame

\* get_timeline returns Ok(posts): the mailbox is built
Pop3FetchOk ==
    /\ p_pc = "fetch"
    /\ \E posts \in Timelines :
         LET emails == convert_posts_to_emails(posts) IN
         /\ p_timeline' = posts
         /\ p_emails' = emails
         /\ p_post_size' = post_size_of(emails)
    /\ p_pc' = "transaction"
    /\ p_in' = <<>>
    /\ p_out' = <<POP3_OK_MESSAGES_FETCHED>>
    /\ UNCHANGED <<p_cred, p_listed>>
    /\ Pop3Frame

\* mutant: a failed fetch is answered -ERR and tried again
Pop3FetchErr_retries ==
    /\ p_pc = "fetch"
    /\ p_pc' = "fetch"
    /\ p_in' = <<>>
    /\ p_out' = <<W("-ERR Failed to fetch messages", <<>>)>>
    /\ UNCHANGED <<p_cred, p_timeline, p_emails, p_post_size, p_listed>>
    /\ Pop3Frame

\* get_timeline returns Err
Pop3FetchErr ==
    /\ p_pc = "fetch"
    /\ p_pc' = "closed"
    /\ p_in' = <<>>
    /\ p_out' = <<W("-ERR Failed to fetch messages", <<>>)>>
    /\ UNCHANGED <<p_cred, p_timeline, p_emails, p_post_size, p_listed>>
    /\ Pop3Frame

\* Pop3Command with a slip: an accepted DELE removes the message
Pop3Command_dele_removes ==
    /\ p_pc = "transaction"
    /\ \E command \in TransactionReads :
         LET r == handle_pop3_commands(command, p_emails, p_post_size)
             parts == split_whitespace(command)
             index == IF next_part(parts, 2).some
                      THEN parse_usize(next_part(parts, 2).v) ELSE Err
             removes == /\ next_part(parts, 1) = Some(<<"DELE">>)
                        /\ index.ok
                        /\ InRange(index.v, p_emails)
         IN
         /\ p_in' = command
         /\ p_out' = r.out
         /\ p_pc' = IF r.brk THEN "closed" ELSE "transaction"
         /\ p_listed' = IF next_part(parts, 1) = Some(<<"LIST">>)
                        THEN ListedIn(r.out)
                        ELSE p_listed
         /\ p_emails' = IF removes
                        THEN [i \in 1..(Len(p_emails) - 1) |->
                                 IF i < index.v THEN p_emails[i] ELSE p_emails[i + 1]]
                        ELSE p_emails
    /\ UNCHANGED <<p_cred, p_timeline, p_post_size>>
    /\ Pop3Frame

\* handle_pop3_commands reads n > 0 bytes
Pop3Command ==
    /\ p_pc = "transaction"
    /\ \E command \in TransactionReads :
         LET r == handle_pop3_commands(command, p_emails, p_post_size) IN
         /\ p_in' = command
         /\ p_out' = r.out
         /\ p_pc' = IF r.brk THEN "closed" ELSE "transaction"
         /\ p_listed' = IF next_part(split_whitespace(command), 1) = Some(<<"LIST">>)
                        THEN ListedIn(r.out)
                        ELSE p_listed
    /\ UNCHANGED <<p_cred, p_timeline, p_emails, p_post_size>>
    /\ Pop3Frame

\* handle_pop3_commands reads n == 0: break
Pop3Eof ==
    /\ p_pc = "transaction"
    /\ p_pc' = "closed"
    /\ p_in' = <<>>
    /\ p_out' = <<>>
    /\ UNCHANGED <<p_cred, p_timeline, p_emails, p_post_size, p_listed>>
    /\ Pop3Frame

Pop3Next ==
    \/ Pop3Banner
    \/ Pop3LoginRead
    \/ Pop3LoginEof
    \/ Pop3VerifyOk
    \/ Pop3VerifyErr
    \/ Pop3FetchOk
    \/ Pop3FetchErr
    \/ Pop3Command
    \/ Pop3Eof

(***************************************************************************)
(* The SMTP connection task: handle_smtp_connection.                       *)
(***************************************************************************)
RECURSIVE FindFrom(_, _, _)
FindFrom(s, c, i) ==
    IF i > Len(s) THEN NoneOpt
    ELSE IF s[i] = c THEN [some |-> TRUE, v |-> i]
    ELSE FindFrom(s, c, i + 1)

\* str::find(char): the index of the first occurrence
find(s, c) == FindFrom(s, c, 1)

extract_email_addr(command) ==
    LET start == find(command, "<")
        end == find(command, ">")
    IN
    IF ~start.some \/ ~end.some THEN NoneOpt
    ELSE IF start.v < end.v THEN Some(SubSeq(command, start.v + 1, end.v - 1))
    ELSE NoneOpt

SmtpOk == W("250 OK", <<>>)
SmtpBye == W("221 bye", <<>>)
SmtpNotImplemented == W("502 command not implemented", <<>>)
SmtpSendMessage == W("354 Send message", <<>>)

\* smtp_unknown with a slip: the unknown verb ends the loop
smtp_unknown_breaks(from) ==
    [from |-> from, out |-> <<SmtpNotImplemented>>, to |-> "closed"]

\* Some("QUIT"): 221 bye, break
smtp_quit(from) == [from |-> from, out |-> <<SmtpBye>>, to |-> "closed"]

\* the `_` arm: 502, and the loop goes on
smtp_unknown(from) ==
    [from |-> from, out |-> <<SmtpNotImplemented>>, to |-> "command"]

\* mutant: the RSET arm keeps `from`
smtp_command_rset_keeps(from, command) ==
    LET verb == next_part(split_whitespace(command), 1)
        from_addr == extract_email_addr(command)
    IN
    IF verb = Some(<<"MAIL">>) THEN
        [from |-> IF from_addr.some THEN from_addr.v ELSE from,
         out |-> <<SmtpOk>>, to |-> "command"]
    ELSE IF verb = Some(<<"DATA">>) THEN
        [from |-> from, out |-> <<SmtpSendMessage>>, to |-> "data"]
    ELSE IF verb = Some(<<"QUIT">>) THEN smtp_quit(from)
    ELSE [from |-> from, out |-> <<SmtpOk>>, to |-> "command"]

\* one iteration of the command loop on the bytes of one read: the new
\* `from`, the writes and where the task goes
smtp_command(from, command) ==
    LET parts == split_whitespace(command)
        verb == next_part(parts, 1)
    IN
    IF verb = Some(<<"HELO">>) THEN
        [from |-> from, out |-> <<W("250 MOP3 ready", <<>>)>>, to |-> "command"]
    ELSE IF verb = Some(<<"EHLO">>) THEN
        [from |-> from,
         out |-> <<W("250-MOP3", <<>>), W("250-SIZE 5000000", <<>>), SmtpOk>>,
         to |-> "command"]
    ELSE IF verb = Some(<<"MAIL">>) THEN
        LET from_addr == extract_email_addr(command) IN
        [from |-> IF from_addr.some THEN from_addr.v ELSE from,
         out |-> <<SmtpOk>>, to |-> "command"]
    ELSE IF verb = Some(<<"RCPT">>) THEN
        [from |-> from, out |-> <<SmtpOk>>, to |-> "command"]
    ELSE IF verb = Some(<<"DATA">>) THEN
        [from |-> from, out |-> <<SmtpSendMessage>>, to |-> "data"]
    ELSE IF verb = Some(<<"RSET">>) THEN
        [from |-> <<>>, out |-> <<SmtpOk>>, to |-> "command"]
    ELSE IF verb = Some(<<"QUIT">>) THEN smtp_quit(from)
    ELSE IF verb = Some(<<"NOOP">>) THEN
        [from |-> from, out |-> <<SmtpOk>>, to |-> "command"]
    ELSE smtp_unknown(from)

\* one iteration of the DATA loop on the bytes of one read: the new
\* email_data and whether the loop breaks
smtp_data(email_data, line) ==
    IF trim(line) = <<".">>
    THEN [email_data |-> email_data, brk |-> TRUE]
    ELSE [email_data |-> email_data \o line, brk |-> FALSE]

SmtpCommandReads ==
    {Cmd(<< <<"HELO">>, <<"host">> >>), Cmd(<< <<"EHLO">>, <<"host">> >>),
     Cmd(<< <<"MAIL">>, <<"FROM", ":", "<", "a@b", ">">> >>),
     Cmd(<< <<"MAIL">>, <<"FROM", ":", "<", "c@d", ">">> >>),
     Cmd(<< <<"MAIL">>, <<"FROM", ":", "a@b">> >>),
     Cmd(<< <<"MAIL">>, <<"FROM", ":", ">", "a@b", "<">> >>),
     Cmd(<< <<"RCPT">>, <<"TO", ":", "<", "r@s", ">">> >>),
     Cmd(<< <<"DATA">> >>), Cmd(<< <<"RSET">> >>), Cmd(<< <<"QUIT">> >>),
     Cmd(<< <<"NOOP">> >>), Cmd(<< <<"VRFY">>, <<"a@b">> >>),
     Cmd(<< <<"quit">> >>), Cmd(<< <<"STAT">> >>), CRLF}

SmtpDataReads ==
    {Ln(<<"hello">>), Ln(<<".">>), Ln(<<".", ".", "text">>), Ln(<<".", "text">>),
     Ln(<<"hello">>) \o Ln(<<".">>), <<".">>, Ln(<<"text">>), Ln(<<SP, ".">>),
     Ln(<<"QUIT">>), Ln(<<"RSET">>),
     Cmd(<< <<"MAIL">>, <<"FROM", ":", "<", "x@y", ">">> >>), CRLF}

\* what a step of the SMTP task leaves alone; handle_smtp_connection has no
\* call of post_status or upload_media (the DATA arm reads the message and
\* answers), so no step of the task publishes
SmtpFrame ==
    UNCHANGED <<cfg, mainVars, pop3Vars, convVars, peerVars, s_published>>

SmtpInit ==
    /\ s_pc = "greet"
    /\ s_from = <<>>
    /\ s_email_data = <<>>
    /\ s_rx = <<>>
    /\ s_reads = 0
    /\ s_in = <<>>
    /\ s_out = <<>>
    /\ s_published = <<>>
    /\ s_mail = FALSE

\* stream.write_all(b"220 MOP3 SMTP ready\r\n")
SmtpGreet ==
    /\ s_pc = "greet"
    /\ s_pc' = "command"
    /\ s_out' = <<W("220 MOP3 SMTP ready", <<>>)>>
    /\ UNCHANGED <<s_from, s_email_data, s_rx, s_reads, s_in, s_mail>>
    /\ SmtpFrame

\* whether the transaction has had its MAIL command once `command` is served
smtp_mail_seen(mail, command) ==
    LET verb == next_part(split_whitespace(command), 1) IN
    IF verb = Some(<<"MAIL">>) THEN TRUE
    ELSE IF verb = Some(<<"RSET">>) THEN FALSE
    ELSE mail

\* the command loop reads n > 0 bytes
SmtpCommand ==
    /\ s_pc = "command"
    /\ \E command \in SmtpCommandReads :
         LET r == smtp_command(s_from, command) IN
         /\ s_in' = command
         /\ s_out' = r.out
         /\ s_from' = r.from
         /\ s_pc' = r.to
         /\ s_mail' = smtp_mail_seen(s_mail, command)
    /\ s_email_data' = <<>>
    /\ s_rx' = <<>>
    /\ s_reads' = 0
    /\ SmtpFrame

\* the command loop reads Ok(0) or Err: break
SmtpEof ==
    /\ s_pc = "command"
    /\ s_pc' = "closed"
    /\ s_in' = <<>>
    /\ s_out' = <<>>
    /\ s_email_data' = <<>>
    /\ s_rx' = <<>>
    /\ s_reads' = 0
    /\ UNCHANGED <<s_from, s_mail>>
    /\ SmtpFrame

\* the DATA loop reads n > 0 bytes
SmtpDataRead ==
    /\ s_pc = "data"
    /\ s_reads < MaxDataReads
    /\ \E line \in SmtpDataReads :
         LET r == smtp_data(s_email_data, line) IN
         /\ s_in' = line
         /\ s_rx' = s_rx \o line
         /\ s_email_data' = r.email_data
         /\ s_pc' = IF r.brk THEN "command" ELSE "data"
         /\ s_out' = IF r.brk THEN <<SmtpOk>> ELSE <<>>
         /\ s_mail' = IF r.brk THEN FALSE ELSE s_mail
    /\ s_reads' = s_reads + 1
    /\ UNCHANGED s_from
    /\ SmtpFrame

\* the DATA loop reads Ok(0) or Err: break, and 250 OK is written
SmtpDataEof ==
    /\ s_pc = "data"
    /\ s_pc' = "command"
    /\ s_in' = <<>>
    /\ s_out' = <<SmtpOk>>
    /\ s_mail' = FALSE
    /\ UNCHANGED <<s_from, s_email_data, s_rx, s_reads>>
    /\ SmtpFrame

SmtpNext ==
    \/ SmtpGreet
    \/ SmtpCommand
    \/ SmtpEof
    \/ SmtpDataRead
    \/ SmtpDataEof

(***************************************************************************)
(* main(): validate, then the listener tasks.  A listener task binds       *)
(* (which can fail) and then accepts connections for ever, spawning one    *)
(* task per connection; main returns Err when validate fails or when a     *)
(* listener task ends.                                                     *)
(***************************************************************************)
Listener(st, n) == [st |-> st, accepted |-> n]

\* what a step of main and the listeners leaves alone
MainFrame == UNCHANGED <<cfg, pop3Vars, smtpVars, convVars, peerVars>>

MainInit ==
    /\ m_pc = "validate"
    /\ m_pop3 = Listener("none", 0)
    /\ m_smtp = Listener("none", 0)

\* config.validate()?
MainValidate ==
    /\ m_pc = "validate"
    /\ m_pc' = IF validate(cfg).ok THEN "spawn" ELSE "exit_err"
    /\ UNCHANGED <<m_pop3, m_smtp>>
    /\ MainFrame

\* tokio::spawn of run_pop3_server and, unless nosmtp, of run_smtp_server
MainSpawn ==
    /\ m_pc = "spawn"
    /\ m_pc' = "select"
    /\ m_pop3' = Listener("spawned", 0)
    /\ m_smtp' = IF cfg.nosmtp THEN m_smtp ELSE Listener("spawned", 0)
    /\ MainFrame

\* TcpListener::bind in run_pop3_server: Ok or Err
Pop3Bind ==
    /\ m_pc = "select"
    /\ m_pop3.st = "spawned"
    /\ \E st \in {"listening", "failed"} : m_pop3' = Listener(st, 0)
    /\ UNCHANGED <<m_pc, m_smtp>>
    /\ MainFrame

\* listener.accept() in run_pop3_server
Pop3Accept ==
    /\ m_pc = "select"
    /\ m_pop3.st = "listening"
    /\ m_pop3.accepted < MaxConns
    /\ m_pop3' = Listener("listening", m_pop3.accepted + 1)
    /\ UNCHANGED <<m_pc, m_smtp>>
    /\ MainFrame

\* TcpListener::bind in run_smtp_server: Ok or Err
SmtpBind ==
    /\ m_pc = "select"
    /\ m_smtp.st = "spawned"
    /\ \E st \in {"listening", "failed"} : m_smtp' = Listener(st, 0)
    /\ UNCHANGED <<m_pc, m_pop3>>
    /\ MainFrame

\* listener.accept() in run_smtp_server
SmtpAccept ==
    /\ m_pc = "select"
    /\ m_smtp.st = "listening"
    /\ m_smtp.accepted < MaxConns
    /\ m_smtp' = Listener("listening", m_smtp.accepted + 1)
    /\ UNCHANGED <<m_pc, m_pop3>>
    /\ MainFrame

\* tokio::select!: a listener task has ended
MainSelect ==
    /\ m_pc = "select"
    /\ m_pop3.st = "failed" \/ m_smtp.st = "failed"
    /\ m_pc' = "exit_err"
    /\ UNCHANGED <<m_pop3, m_smtp>>
    /\ MainFrame

MainNext ==
    \/ MainValidate
    \/ MainSpawn
    \/ Pop3Bind
    \/ Pop3Accept
    \/ SmtpBind
    \/ SmtpAccept
    \/ MainSelect

(***************************************************************************)
(* The content conversion functions applied to a text: the input is drawn  *)
(* at the start, a step applies one function to it.                        *)
(***************************************************************************)
HtmlPieces ==
    {<<"Hello">>, <<SP>>, <<"https://", "a.com">>, <<"quot", ";">>,
     Tag(<<"p">>), Tag(<<"/", "p">>), Tag(<<"b">>), Tag(<<"br">>),
     Entity("lt"), Entity("gt"), Entity("amp"), Entity("quot"), Entity("nbsp")}

\* "Hello" and "world" with n line breaks between them
Breaks(n) ==
    <<"Hello">> \o Concat([i \in 1..n |-> Tag(<<"br">>)]) \o <<"world">>

\* "<p>Hello <b>world</b>!</p>", "&lt;test&gt; &amp; &quot;quotes&quot;",
\* and paragraphs three and five line breaks apart
HtmlExamples ==
    {Tag(<<"p">>) \o <<"Hello", SP>> \o Tag(<<"b">>) \o <<"world">>
        \o Tag(<<"/", "b">>) \o <<"!">> \o Tag(<<"/", "p">>),
     Entity("lt") \o <<"test">> \o Entity("gt") \o <<SP>> \o Entity("amp")
        \o <<SP>> \o Entity("quot") \o <<"quotes">> \o Entity("quot"),
     Breaks(3), Breaks(5)}

HtmlInputs == {Concat(ps) : ps \in SeqsUpTo(HtmlPieces, MaxPieces)} \cup HtmlExamples

ProxyPieces ==
    {<<"https://">>, <<"http://">>, <<"a.com/path">>, <<"text">>, <<SP>>,
     <<"]">>, <<"(">>, <<"<">>, <<"https://", "b.org">>}

\* "Check this: https://example.com/path"
ProxyExamples ==
    {<<"Check", SP, "this:", SP, "https://", "example.com/path">>}

ProxyInputs == {Concat(ps) : ps \in SeqsUpTo(ProxyPieces, MaxPieces)} \cup ProxyExamples

\* "http://proxy.com/?url=" and a prefix that holds no URL itself
Proxies == {<<"http://", "proxy.com/?url=">>, <<"frog?a=">>}

\* what a conversion step leaves alone
ConvFrame == UNCHANGED <<cfg, mainVars, pop3Vars, smtpVars, peerVars>>

ConvInit ==
    /\ c_fn = "none"
    /\ c_in = <<>>
    /\ c_arg = <<>>
    /\ c_out = <<>>

HtmlToText ==
    /\ c_fn = "none"
    /\ c_fn' = "html_to_text"
    /\ c_out' = html_to_text(c_in)
    /\ UNCHANGED <<c_in, c_arg>>
    /\ ConvFrame

ConverterHtmlToText ==
    /\ c_fn = "none"
    /\ c_fn' = "converter_html_to_text"
    /\ c_out' = converter_html_to_text(c_in)
    /\ UNCHANGED <<c_in, c_arg>>
    /\ ConvFrame

ApplyProxyToLinks ==
    /\ c_fn = "none"
    /\ c_fn' = "apply_proxy_to_links"
    /\ \E proxy \in Proxies :
         /\ c_arg' = proxy
         /\ c_out' = apply_proxy_to_links(c_in, proxy)
    /\ UNCHANGED c_in
    /\ ConvFrame

HtmlNext ==
    \/ HtmlToText
    \/ ConverterHtmlToText

ProxyNext == ApplyProxyToLinks

(***************************************************************************)
(* The specifications.  Each holds the parts it is not about at their      *)
(* initial values.  A connection task runs under a Config that validate    *)
(* accepted; the fields no connection task reads stay fixed there.         *)
(***************************************************************************)
\* both clients have their side of the connection open
PeerInit == p_peer = "open" /\ s_peer = "open"

TaskConfigs ==
    {c \in Configs : validate(c).ok /\ c.nosmtp = ~c.token.some
                     /\ ~c.attachment /\ ~c.inline}

InitMain ==
    cfg \in Configs /\ MainInit /\ Pop3Init /\ SmtpInit /\ ConvInit /\ PeerInit
SpecMain == InitMain /\ [][MainNext]_vars

InitPop3 ==
    cfg \in TaskConfigs /\ MainInit /\ Pop3Init /\ SmtpInit /\ ConvInit /\ PeerInit
SpecPop3 == InitPop3 /\ [][Pop3Next]_vars

InitSmtp ==
    /\ cfg \in {c \in TaskConfigs : ~c.nosmtp}
    /\ MainInit
    /\ Pop3Init
    /\ SmtpInit
    /\ ConvInit
    /\ PeerInit
SpecSmtp == InitSmtp /\ [][SmtpNext]_vars

(***************************************************************************)
(* The listeners and the connection tasks together: the task of the first  *)
(* connection each listener accepted runs concurrently with the accept     *)
(* loops and with the task of the other protocol.  The clients send a      *)
(* short dialogue here.                                                    *)
(***************************************************************************)
TasksPop3Reads ==
    {<<>>, Cmd(<< <<"USER">>, <<"alice">> >>), Cmd(<< <<"PASS">>, <<"secret">> >>),
     Cmd(<< <<"STAT">> >>), Cmd(<< <<"QUIT">> >>)}

TasksSmtpReads ==
    {<<>>, Cmd(<< <<"NOOP">> >>), Cmd(<< <<"DATA">> >>), Cmd(<< <<"QUIT">> >>),
     Ln(<<"hello">>), Ln(<<".">>)}

\* the spawned task of an accepted connection runs while the process does
Pop3TaskRuns == m_pc = "select" /\ m_pop3.accepted > 0
SmtpTaskRuns == m_pc = "select" /\ m_smtp.accepted > 0

Pop3TaskStep ==
    /\ Pop3TaskRuns
    /\ Pop3Next
    /\ p_in' \in TasksPop3Reads
    /\ Len(p_timeline') <= 1

SmtpTaskStep ==
    /\ SmtpTaskRuns
    /\ SmtpNext
    /\ s_in' \in TasksSmtpReads

TasksNext ==
    \/ MainNext
    \/ Pop3TaskStep
    \/ SmtpTaskStep

InitTasks ==
    /\ cfg \in {c \in TaskConfigs : ~c.nosmtp /\ ~c.account.some}
    /\ MainInit
    /\ Pop3Init
    /\ SmtpInit
    /\ ConvInit
    /\ PeerInit

SpecTasks == InitTasks /\ [][TasksNext]_vars

(***************************************************************************)
(* The connection tasks and their clients.  A client whose side is open    *)
(* may send bytes, stay silent, or close; a task blocked in stream.read    *)
(* proceeds when bytes have arrived or when the peer has closed (Ok(0)).   *)
(* The runtime polls a task that can proceed, and verify and               *)
(* fetch_timeline return.                                                  *)
(***************************************************************************)
LivePop3Reads ==
    {<<>>, Cmd(<< <<"USER">>, <<"alice">> >>), Cmd(<< <<"PASS">>, <<"secret">> >>),
     Cmd(<< <<"STAT">> >>), Cmd(<< <<"QUIT">> >>),
     Cmd(<< <<"NOOP">> >>) \o Cmd(<< <<"QUIT">> >>)}

LiveSmtpReads ==
    {<<>>, Cmd(<< <<"NOOP">> >>), Cmd(<< <<"DATA">> >>), Cmd(<< <<"QUIT">> >>),
     Ln(<<"hello">>), Ln(<<".">>), Ln(<<"QUIT">>)}

\* the client closes its side of the connection
Pop3PeerClose ==
    /\ p_peer = "open"
    /\ p_peer' = "closed"
    /\ UNCHANGED <<cfg, mainVars, pop3Vars, smtpVars, convVars, s_peer>>

SmtpPeerClose ==
    /\ s_peer = "open"
    /\ s_peer' = "closed"
    /\ UNCHANGED <<cfg, mainVars, pop3Vars, smtpVars, convVars, p_peer>>

\* stream.read returns the bytes the client sent
Pop3Receives ==
    /\ p_peer = "open"
    /\ Pop3LoginRead \/ Pop3Command
    /\ p_in' \in LivePop3Reads

SmtpReceives ==
    /\ s_peer = "open"
    /\ SmtpCommand \/ SmtpDataRead
    /\ s_in' \in LiveSmtpReads

\* the steps of a task that wait for no bytes of the client: its writes,
\* the capability calls, and stream.read returning Ok(0) on a closed peer
Pop3Proceeds ==
    \/ Pop3Banner
    \/ Pop3VerifyOk
    \/ Pop3VerifyErr
    \/ Pop3FetchOk /\ Len(p_timeline') <= 1
    \/ Pop3FetchErr
    \/ p_peer = "closed" /\ Pop3LoginEof
    \/ p_peer = "closed" /\ Pop3Eof

SmtpProceeds ==
    \/ SmtpGreet
    \/ s_peer = "closed" /\ SmtpEof
    \/ s_peer = "closed" /\ SmtpDataEof

LiveNext ==
    \/ Pop3PeerClose
    \/ SmtpPeerClose
    \/ Pop3Receives
    \/ SmtpReceives
    \/ Pop3Proceeds
    \/ SmtpProceeds

InitLive ==
    /\ cfg \in {c \in TaskConfigs : ~c.nosmtp /\ ~c.account.some}
    /\ MainInit
    /\ Pop3Init
    /\ SmtpInit
    /\ ConvInit
    /\ PeerInit

SpecLive ==
    /\ InitLive
    /\ [][LiveNext]_vars
    /\ WF_vars(Pop3Proceeds)
    /\ WF_vars(SmtpProceeds)

(***************************************************************************)
(* The message convert_mastodon_post_to_email builds for one status: the   *)
(* MessageBuilder at write_to_string, as its subject, its sender name, its  *)
(* bodies and its binary parts.  Config.ascii and Config.url are unset and   *)
(* Config.proxy is None here: the content passes those steps unchanged.    *)
(***************************************************************************)
DisplayNames == {<<"ann">>, <<"bo">>}
StatusContents == {<<"own">>, Tag(<<"p">>) \o <<"boosted">> \o Tag(<<"/", "p">>)}

\* an entry of media_attachments: its "url", its "preview_url", and whether
\* download_media succeeds for it
MediaRefs ==
    [url : {NoneOpt, Some(<<"full.png">>)},
     preview_url : {NoneOpt, Some(<<"small.png">>)},
     download_ok : BOOLEAN]

\* the status a boost carries: it is no boost itself
Reblogs ==
    [content : StatusContents,
     display_name : DisplayNames,
     reblog : {NoneOpt},
     media_attachments : SeqsUpTo({[url |-> Some(<<"full.png">>),
                                    preview_url |-> Some(<<"small.png">>),
                                    download_ok |-> TRUE]}, 1)]

Statuses ==
    [content : StatusContents,
     display_name : DisplayNames,
     reblog : {NoneOpt} \cup {Some(r) : r \in Reblogs},
     media_attachments : SeqsUpTo(MediaRefs, MaxMedia)]

\* MessageBuilder::new().from(..).subject(..)
NewMessage(subject, from) ==
    [subject |-> subject, from |-> from, text_body |-> NoneOpt,
     html_body |-> NoneOpt, parts |-> <<>>]

\* message.html_body(content) / message.text_body(content)
with_body(message, config, content) ==
    IF config.html THEN [message EXCEPT !.html_body = Some(content)]
    ELSE [message EXCEPT !.text_body = Some(content)]

\* content after the html_to_text step
converted_content(content, config) ==
    IF ~config.html THEN html_to_text(content) ELSE content

\* format!("{}\n> Fullsize: {}\n", content, url)
Fullsize(content, url) == content \o <<LF, "> Fullsize: ">> \o url \o <<LF>>

\* the loop over post.media_attachments of pop3/server.rs
RECURSIVE media_loop(_, _, _, _)
media_loop(message, attachments, content, config) ==
    IF attachments = <<>> THEN message
    ELSE
        LET a == Head(attachments)
            loaded ==
                IF a.preview_url.some /\ (config.attachment \/ config.inline)
                   /\ a.download_ok
                THEN IF config.attachment
                     THEN [message EXCEPT !.parts = Append(@, "attachment")]
                     ELSE IF config.inline
                     THEN [message EXCEPT !.parts = Append(@, "inline")]
                     ELSE message
                ELSE message
            linked ==
                IF a.preview_url.some /\ a.url.some
                THEN [loaded EXCEPT !.text_body = Some(Fullsize(content, a.url.v))]
                ELSE loaded
        IN media_loop(linked, Tail(attachments), content, config)

\* convert_mastodon_post_to_email of pop3/server.rs, up to write_to_string
build_message(post, config) ==
    LET content == converted_content(post.content, config)
        subject == IF post.reblog.some
                   THEN <<"mop3 ", "Boost from ">> \o post.display_name
                   ELSE <<"mop3 ", "Post">>
        message == with_body(NewMessage(subject, post.display_name), config, content)
    IN media_loop(message, post.media_attachments, content, config)

\* the loop over the media of pop3/converter.rs
RECURSIVE converter_media_loop(_, _, _)
converter_media_loop(message, attachments, config) ==
    IF attachments = <<>> THEN message
    ELSE
        LET a == Head(attachments)
            loaded ==
                IF a.url.some /\ (config.attachment \/ config.inline)
                   /\ a.download_ok
                THEN IF config.attachment
                     THEN [message EXCEPT !.parts = Append(@, "attachment")]
                     ELSE IF config.inline
                     THEN [message EXCEPT !.parts = Append(@, "inline")]
                     ELSE message
                ELSE message
        IN converter_media_loop(loaded, Tail(attachments), config)

\* convert_mastodon_post_to_email of pop3/converter.rs, up to write_to_string
converter_build_message(post, config) ==
    LET source == IF post.reblog.some THEN post.reblog.v ELSE post
        subject == IF post.reblog.some
                   THEN <<"Boost from ">> \o post.reblog.v.display_name
                   ELSE <<"Post">>
        content == converted_content(source.content, config)
        message == with_body(NewMessage(subject, post.display_name), config, content)
    IN converter_media_loop(message, source.media_attachments, config)

\* the Config fields the conversion reads, under a Config validate accepted
MessageConfigs ==
    {c \in [account : {NoneOpt}, token : {NoneOpt}, nosmtp : {TRUE},
            attachment : BOOLEAN, inline : BOOLEAN, html : BOOLEAN] :
        validate(c).ok}

BuildMessage ==
    /\ c_fn = "none"
    /\ c_fn' = "convert_mastodon_post_to_email"
    /\ c_out' = build_message(c_in, cfg)
    /\ UNCHANGED <<c_in, c_arg>>
    /\ ConvFrame

ConverterBuildMessage ==
    /\ c_fn = "none"
    /\ c_fn' = "converter::convert_mastodon_post_to_email"
    /\ c_out' = converter_build_message(c_in, cfg)
    /\ UNCHANGED <<c_in, c_arg>>
    /\ ConvFrame

MessageNext ==
    \/ BuildMessage
    \/ ConverterBuildMessage

InitMessage ==
    /\ cfg \in MessageConfigs
    /\ MainInit
    /\ Pop3Init
    /\ SmtpInit
    /\ PeerInit
    /\ c_fn = "none"
    /\ c_in \in Statuses
    /\ c_arg = <<>>
    /\ c_out = <<>>

SpecMessage == InitMessage /\ [][MessageNext]_vars

\* the conversion of one post runs under a validated Config
InitConv(inputs) ==
    /\ cfg \in {c \in TaskConfigs : c.nosmtp /\ ~c.account.some}
    /\ MainInit
    /\ Pop3Init
    /\ SmtpInit
    /\ c_fn = "none"
    /\ c_in \in inputs
    /\ c_arg = <<>>
    /\ c_out = <<>>
    /\ PeerInit

InitHtml == InitConv(HtmlInputs)
SpecHtml == InitHtml /\ [][HtmlNext]_vars

InitProxy == InitConv(ProxyInputs)
SpecProxy == InitProxy /\ [][ProxyNext]_vars

(***************************************************************************)
(* Properties of the POP3 task (SpecPop3).                                 *)
(***************************************************************************)
\* the verb and the arguments of the command last read
LastParts == split_whitespace(p_in)
LastVerb == next_part(LastParts, 1)
LastArg == next_part(LastParts, 2)
LastArg2 == next_part(LastParts, 3)
Served(v) == p_pc = "transaction" /\ LastVerb = Some(<<v>>)

\* a numeral token and its value
IsNumeral(opt) == opt.some /\ IsDigits(opt.v)
TokDigits(tok) == [i \in 1..Len(tok) |-> DigitVal(tok[i])]
FitsUsize(opt) == IsNumeral(opt) /\ ~PosOverflow(TokDigits(opt.v))
ValueOf(opt) == DecValue(TokDigits(opt.v), 0)
ValidIndex(opt) == FitsUsize(opt) /\ ValueOf(opt) \in 1..Len(p_emails)

\* the reply to a RETR that found its message: status line, content, terminator
IsRetrReply(out) ==
    /\ Len(out) = 3
    /\ out[1].fmt = "+OK {} octets"
    /\ out[2].fmt = "raw"
    /\ out[3] = CRLFDotCRLF

\* C1: for every index i in 1..N, the size LIST reports for i (LIST i, or the
\* line for i of LIST without argument) equals the number in the `+OK <n>
\* octets` line of RETR i and equals the number of bytes RETR i streams
\* before the terminating CRLF.CRLF.
C1_ListSizeIsRetrSize ==
    /\ (Served("LIST") /\ ValidIndex(LastArg)) =>
          /\ Len(p_out) = 1
          /\ p_out[1].fmt = "+OK {} {}"
          /\ p_out[1].args[1] = ValueOf(LastArg)
          /\ p_listed = {<<ValueOf(LastArg), p_out[1].args[2]>>}
    /\ (Served("LIST") /\ ~LastArg.some) =>
          /\ {pr[1] : pr \in p_listed} = 1..Len(p_emails)
          /\ Len(p_out) = Len(p_emails) + 2
    /\ (Served("RETR") /\ ValidIndex(LastArg)) =>
          /\ IsRetrReply(p_out)
          /\ p_out[1].args[1] = Len(p_out[2].raw)
          /\ \A pr \in p_listed :
                pr[1] = ValueOf(LastArg) => pr[2] = Len(p_out[2].raw)

C1_Witness ==
    /\ Served("RETR")
    /\ ValidIndex(LastArg)
    /\ ValueOf(LastArg) = 2
    /\ IsRetrReply(p_out)
    /\ Cardinality(p_listed) = 2
    /\ \E pr \in p_listed : pr[1] = 2 /\ pr[2] = Len(p_out[2].raw)

\* the timeline entries that were converted into emails
Converted(posts) ==
    {i \in 1..Len(posts) : posts[i].variant = "Mastodon" /\ posts[i].write_ok}

\* the number of bytes RETR i streams before the terminator
RetrStreams(i) == Len(cmd_retr(<< <<"RETR">>, Decimal(i) >>, p_emails)[2].raw)

RECURSIVE SumTo(_, _)
SumTo(F(_), n) == IF n = 0 THEN 0 ELSE F(n) + SumTo(F, n - 1)

\* C2: after a login, STAT answers `+OK <count> <total>`: count is the number
\* of timeline entries converted into emails, total the sum over 1..count of
\* the bytes RETR streams for the index; for every timeline, the empty one
\* included.
C2_StatCountAndTotal ==
    Served("STAT") =>
        LET count == Cardinality(Converted(p_timeline)) IN
        p_out = <<W("+OK {} {}", <<count, SumTo(RetrStreams, count)>>)>>

C2_Witness ==
    /\ Served("STAT")
    /\ Len(p_timeline) = 2
    /\ Cardinality(Converted(p_timeline)) = 1
    /\ p_out[1].args[1] = 1
    /\ p_out[1].args[2] > 0

\* the command last read is LIST or RETR with a numeral for its index
IndexedRead == (Served("LIST") \/ Served("RETR")) /\ IsNumeral(LastArg)

\* the numeral is no index of the mailbox
OutsideMailbox(opt) == ~FitsUsize(opt) \/ ValueOf(opt) \notin 1..Len(p_emails)

\* C3 as stated: for every numeric index i outside 1..N, LIST i and RETR i
\* answer `-ERR no such message` and the session stays in Transaction.
C3_Original ==
    (IndexedRead /\ OutsideMailbox(LastArg)) => p_out = <<ErrNoSuchMessage>>

\* C3, amended: for every numeric index i outside 1..N that fits usize (i = 0
\* or N < i <= usize::MAX), LIST i and RETR i answer `-ERR no such message`;
\* a numeral above usize::MAX is answered `-ERR invalid message number`.
\* Either way nothing but the one -ERR line is written and the session stays
\* in Transaction.
C3_OutOfRangeIndex ==
    (IndexedRead /\ OutsideMailbox(LastArg)) =>
        /\ FitsUsize(LastArg) => p_out = <<ErrNoSuchMessage>>
        /\ ~FitsUsize(LastArg) => p_out = <<W("-ERR invalid message number", <<>>)>>
        /\ p_pc = "transaction"

C3_Witness ==
    /\ Served("RETR")
    /\ FitsUsize(LastArg)
    /\ Len(p_emails) = 1
    /\ ValueOf(LastArg) = 2
    /\ p_out = <<ErrNoSuchMessage>>

\* the header block of an email: its lines before the first empty line; its
\* body: the lines after that line
RECURSIVE FirstEmpty(_, _)
FirstEmpty(ls, i) ==
    IF i > Len(ls) THEN i ELSE IF ls[i] = <<>> THEN i ELSE FirstEmpty(ls, i + 1)

HeaderBlock(email) == SubSeq(lines(email), 1, FirstEmpty(lines(email), 1) - 1)
BodyLines(email) ==
    SubSeq(lines(email), FirstEmpty(lines(email), 1) + 1, Len(lines(email)))

IsPrefix(a, b) == Len(a) <= Len(b) /\ a = SubSeq(b, 1, Len(a))

\* the reply to a TOP that found its message
IsTopReply(out) ==
    /\ Len(out) = 3
    /\ out[1].fmt = "+OK {} octets"
    /\ out[2].fmt = "raw"
    /\ out[3] = DotCRLF

TopRead == Served("TOP") /\ ValidIndex(LastArg) /\ FitsUsize(LastArg2)

\* C4: for every valid index i and every n >= 0, the reply to TOP i n holds
\* the complete header block of message i and then at most n lines of its
\* body, also when the body is longer.
C4_TopAtMostNBodyLines ==
    TopRead =>
        /\ IsTopReply(p_out)
        /\ LET email == p_emails[ValueOf(LastArg)]
               sent == lines(p_out[2].raw)
               hdr == HeaderBlock(email)
               rest == SubSeq(sent, Len(hdr) + 1, Len(sent))
           IN /\ IsPrefix(hdr, sent)
              /\ rest # <<>> =>
                    /\ Head(rest) = <<>>
                    /\ IsPrefix(Tail(rest), BodyLines(email))
                    /\ Len(Tail(rest)) <= ValueOf(LastArg2)

C4_Witness ==
    /\ TopRead
    /\ IsTopReply(p_out)
    /\ ValueOf(LastArg2) = 2
    /\ Len(BodyLines(p_emails[ValueOf(LastArg)])) > 2
    /\ Len(lines(p_out[2].raw)) > Len(HeaderBlock(p_emails[ValueOf(LastArg)]))

\* the verbs get_pop3_login and handle_pop3_commands know
LoginVerbs == {<<"USER">>, <<"PASS">>, <<"QUIT">>}
TransactionVerbs ==
    {<<"STAT">>, <<"LIST">>, <<"RETR">>, <<"DELE">>, <<"QUIT">>, <<"CAPA">>,
     <<"NOOP">>, <<"RSET">>, <<"TOP">>, <<"UIDL">>}

\* the verb of the bytes `command`, when a read returns them
VerbIn(command, verbs) ==
    LET v == next_part(split_whitespace(command), 1) IN v.some /\ v.v \in verbs

\* C5: an unrecognized verb never closes the connection.  Before
\* authentication it is answered -ERR and the login state (the captured
\* username and password) is unchanged; in Transaction it is answered
\* `-ERR unknown command` and the session goes on against the same mailbox.
C5_UnknownVerbKeepsOpen ==
    [][/\ (p_pc = "login" /\ p_in' # <<>> /\ ~VerbIn(p_in', LoginVerbs)) =>
             /\ p_out' = <<ErrUnknownCommand>>
             /\ p_pc' = "login"
             /\ p_cred' = p_cred
       /\ (p_pc = "transaction" /\ p_in' # <<>> /\ ~VerbIn(p_in', TransactionVerbs)) =>
             /\ p_out' = <<ErrUnknownCommand>>
             /\ p_pc' = "transaction"
             /\ p_emails' = p_emails
             /\ p_post_size' = p_post_size]_vars

C5_Witness ==
    /\ p_pc = "transaction"
    /\ p_in # <<>>
    /\ ~VerbIn(p_in, TransactionVerbs)
    /\ p_out = <<ErrUnknownCommand>>
    /\ p_emails # <<>>

\* C6: QUIT always closes the connection: read before authentication or in
\* Transaction, it is answered `+OK bye`, the task ends and no further
\* command is processed.
C6_QuitCloses ==
    [][/\ (p_pc \in {"login", "transaction"} /\ VerbIn(p_in', {<<"QUIT">>})) =>
             /\ p_out' = <<OkBye>>
             /\ p_pc' = "closed"
       /\ p_pc = "closed" => UNCHANGED pop3Vars]_vars

C6_Witness ==
    /\ p_pc = "closed"
    /\ VerbIn(p_in, {<<"QUIT">>})
    /\ p_out = <<OkBye>>
    /\ p_emails # <<>>

(***************************************************************************)
(* Properties of the SMTP task (SpecSmtp).                                 *)
(***************************************************************************)
SmtpVerbs ==
    {<<"HELO">>, <<"EHLO">>, <<"MAIL">>, <<"RCPT">>, <<"DATA">>, <<"RSET">>,
     <<"NOOP">>, <<"QUIT">>}

\* C7: a verb other than HELO, EHLO, MAIL, RCPT, DATA, RSET, NOOP and QUIT is
\* answered `502 command not implemented`, the connection stays open and
\* the sender of the transaction is unchanged; QUIT is answered `221 bye`
\* and closes the connection.
C7_SmtpUnknownVerbAndQuit ==
    [][/\ (s_pc = "command" /\ s_in' # <<>> /\ ~VerbIn(s_in', SmtpVerbs)) =>
             /\ s_out' = <<SmtpNotImplemented>>
             /\ s_pc' = "command"
             /\ s_from' = s_from
       /\ (s_pc = "command" /\ VerbIn(s_in', {<<"QUIT">>})) =>
             /\ s_out' = <<SmtpBye>>
             /\ s_pc' = "closed"
       /\ s_pc = "closed" => UNCHANGED smtpVars]_vars

C7_Witness ==
    /\ s_pc = "command"
    /\ s_in # <<>>
    /\ ~VerbIn(s_in, SmtpVerbs)
    /\ s_out = <<SmtpNotImplemented>>
    /\ s_from # <<>>

\* the bytes are one complete line: its content, then CRLF
IsOneLine(b) ==
    /\ Len(b) >= 2
    /\ SubSeq(b, Len(b) - 1, Len(b)) = CRLF
    /\ \A i \in 1..(Len(b) - 2) : b[i] \notin {CR, LF}

LineContent(b) == SubSeq(b, 1, Len(b) - 2)

\* C8: during DATA, a received line that begins with `.` and has content
\* after it is appended to the message buffer without its leading dot
\* (`..text` is stored as `.text`).  (The claim also says that a line that
\* does not begin with `.` is stored unchanged.)
C8_DotUnstuffed ==
    [][(s_pc = "data" /\ IsOneLine(s_in')) =>
          LET l == LineContent(s_in') IN
          (Len(l) > 1 /\ l[1] = ".") =>
              s_email_data' = s_email_data \o Ln(Tail(l))]_vars

\* the complete lines of the bytes: those their LF has arrived for
RECURSIVE UpToLastLF(_)
UpToLastLF(b) ==
    IF b = <<>> \/ b[Len(b)] = LF THEN b ELSE UpToLastLF(SubSeq(b, 1, Len(b) - 1))

CompleteLines(b) == lines(UpToLastLF(b))

HasDotLine(ls) == \E i \in 1..Len(ls) : ls[i] = <<".">>

\* C9: after the 354, the first line that is exactly `.` ends the message:
\* once such a line has arrived the server has left the Data state, and that
\* line is never in the stored body, however the lines are grouped into
\* reads.  (The claim also says that no other line ends the message.)
C9_LoneDotTerminates ==
    /\ s_pc = "data" => ~HasDotLine(CompleteLines(s_rx))
    /\ ~HasDotLine(CompleteLines(s_email_data))

(***************************************************************************)
(* Properties of main (SpecMain).                                          *)
(***************************************************************************)
NothingServed ==
    /\ m_pop3 = Listener("none", 0)
    /\ m_smtp = Listener("none", 0)

\* C10: a configuration with both attach_media and inline_media set is
\* rejected by validate, before a listener is bound or a connection is
\* accepted: main ends with an error and never serves a session.
C10_BothMediaOptionsRejected ==
    (cfg.attachment /\ cfg.inline) =>
        /\ m_pc \in {"validate", "exit_err"}
        /\ NothingServed

C10_Witness ==
    /\ cfg.attachment
    /\ cfg.inline
    /\ cfg.token.some
    /\ ~cfg.nosmtp
    /\ m_pc = "exit_err"
    /\ NothingServed

\* a listener task has been spawned (bound or not, ended or not)
Started(l) == l.st # "none"

\* C11: whenever a listener is running, the configuration has a token if
\* SMTP is enabled and does not have both attachment and inline set; the SMTP
\* listener is never started without a token and never started when nosmtp
\* is set.
C11_ListenersRunUnderValidConfig ==
    /\ (Started(m_pop3) \/ Started(m_smtp)) =>
           /\ ~cfg.nosmtp => cfg.token.some
           /\ ~(cfg.attachment /\ cfg.inline)
    /\ Started(m_smtp) => (cfg.token.some /\ ~cfg.nosmtp)

C11_Witness ==
    /\ m_pop3.st = "listening"
    /\ m_pop3.accepted > 0
    /\ m_smtp.st = "listening"
    /\ cfg.token.some

C11_WitnessNoSmtp ==
    /\ m_pop3.st = "listening"
    /\ ~Started(m_smtp)
    /\ cfg.nosmtp
    /\ ~cfg.token.some
    /\ m_pc = "select"

(***************************************************************************)
(* More properties of the POP3 task (SpecPop3).                            *)
(***************************************************************************)
\* the mailbox as it is immediately after login
MailboxAtLogin == convert_posts_to_emails(p_timeline)

\* the reply a mailbox gives to the bytes of a read
ReplyAtLogin(command, mailbox) ==
    handle_pop3_commands(command, mailbox, post_size_of(mailbox)).out

\* C12: the mailbox is immutable for the session.  Whatever Transaction
\* commands were served before (DELE, RSET, NOOP, ...), the messages, their
\* indices and the total size are those of the login, so every reply
\* (STAT, LIST, RETR, UIDL, ...) is the one the mailbox of the login gives;
\* UIDL i answers the id msg-i of the position; DELE answers +OK and removes
\* nothing.
C12_MailboxImmutable ==
    p_pc = "transaction" =>
        LET mailbox == MailboxAtLogin IN
        /\ p_emails = mailbox
        /\ p_post_size = post_size_of(mailbox)
        /\ p_in # <<>> => p_out = ReplyAtLogin(p_in, mailbox)
        /\ Served("DELE") => p_out = <<W("+OK", <<>>)>>
        /\ (Served("UIDL") /\ ValidIndex(LastArg)) =>
               p_out = <<W("+OK {} msg-{}", <<ValueOf(LastArg), ValueOf(LastArg)>>)>>

C12_Witness ==
    /\ Served("DELE")
    /\ ValidIndex(LastArg)
    /\ p_out = <<W("+OK", <<>>)>>
    /\ Len(p_emails) = 2
    /\ p_emails = MailboxAtLogin
    /\ Cardinality(p_listed) = 2

ErrInvalidCredentials == W("-ERR Invalid credentials", <<>>)

\* verify has failed: the task is at its end with the -ERR as its last write
VerifyFailed == p_pc = "closed" /\ p_out = <<ErrInvalidCredentials>>

\* C13: when verify fails after a completed login, the server writes
\* exactly one `-ERR Invalid credentials` and the session is closed: there is
\* no second verify, no timeline fetch (the mailbox stays empty), and no
\* further command is read or answered.
C13_VerifyFailureCloses ==
    [][/\ (p_pc = "verify" /\ p_pc' # "fetch") =>
              /\ p_pc' = "closed"
              /\ p_out' = <<ErrInvalidCredentials>>
       /\ VerifyFailed =>
              /\ p_timeline = <<>>
              /\ p_emails = <<>>
              /\ UNCHANGED pop3Vars]_vars

C13_Witness ==
    /\ VerifyFailed
    /\ p_cred.username # <<>>
    /\ p_cred.password # <<>>
    /\ p_timeline = <<>>

\* the argument of the command read by the step
SentArg == next_part(split_whitespace(p_in'), 2)

\* C14: the credentials that verify and fetch_timeline get after a completed
\* login have the configured account as username whenever it is present and
\* the configured token as password whenever it is present, whatever the
\* client sent with USER and PASS; a field that is not configured keeps the
\* value the client sent.
C14_ConfiguredCredentialsWin ==
    [][/\ (p_pc = "login" /\ p_pc' = "verify") =>
              /\ p_cred'.username = IF cfg.account.some THEN cfg.account.v
                                    ELSE p_cred.username
              /\ p_cred'.password = IF cfg.token.some THEN cfg.token.v
                                    ELSE SentArg.v
       /\ p_pc \in {"verify", "fetch"} => p_cred' = p_cred]_vars

C14_Witness ==
    /\ p_pc = "fetch"
    /\ cfg.account = Some(<<"bob">>)
    /\ ~cfg.token.some
    /\ p_cred = Credentials(<<"bob">>, <<"secret">>)

C14_WitnessToken ==
    /\ p_pc = "transaction"
    /\ ~cfg.account.some
    /\ cfg.token = Some(<<"tok">>)
    /\ p_cred = Credentials(<<"alice">>, <<"tok">>)

\* the position in the mailbox of the converted timeline entry i
Rank(posts, i) == Cardinality({j \in Converted(posts) : j <= i})

\* a timeline entry whose conversion fails
IsFailure(post) == post.variant = "Mastodon" /\ ~post.write_ok

\* C15: when the mailbox is built, a post whose conversion fails is dropped
\* and nothing else: the session goes on to Transaction, and the mailbox is
\* exactly the successfully converted posts, in the relative order in which
\* the API returned them.
C15_FailedConversionDropsOnlyThatPost ==
    [][(p_pc = "fetch" /\ p_timeline' # <<>>) =>
          /\ p_pc' = "transaction"
          /\ p_out' = <<POP3_OK_MESSAGES_FETCHED>>
          /\ Len(p_emails') = Cardinality(Converted(p_timeline'))
          /\ \A i \in Converted(p_timeline') :
                p_emails'[Rank(p_timeline', i)] = Rendered(p_timeline'[i].content)]_vars

C15_Witness ==
    /\ p_pc = "transaction"
    /\ Len(p_timeline) = 2
    /\ IsFailure(p_timeline[1])
    /\ p_emails = <<Rendered(2)>>

C15_WitnessOrder ==
    /\ p_pc = "transaction"
    /\ p_emails = <<Rendered(2), Rendered(1)>>

(***************************************************************************)
(* More properties of the SMTP task (SpecSmtp).                            *)
(***************************************************************************)
\* the step ends a DATA message that has content with its lone `.` line
MessageTerminated ==
    /\ s_pc = "data"
    /\ s_email_data # <<>>
    /\ s_in' = Ln(<<".">>)
    /\ s_pc' = "command"

\* C16: after a DATA message is terminated the engine calls publish, once,
\* with the text of the message before it answers (250 OK only when that
\* call succeeded, 5xx when it failed).
C16_PublishBeforeReply ==
    [][MessageTerminated => Len(s_published') = Len(s_published) + 1]_vars

(***************************************************************************)
(* Properties of the listeners and the tasks together (SpecTasks).         *)
(***************************************************************************)
Pop3TaskMoves == pop3Vars' # pop3Vars
SmtpTaskMoves == smtpVars' # smtpVars

C17_WitnessHung ==
    /\ s_pc = "closed"
    /\ p_pc = "fetch"
    /\ m_smtp = Listener("listening", 2)
    /\ m_pop3.st = "listening"

(***************************************************************************)
(* Properties of html_to_text (SpecHtml).                                  *)
(***************************************************************************)
Symbols(s) == {s[i] : i \in 1..Len(s)}

\* markup: every "<" opens a tag that the next ">" closes, and there is no
\* "<" or ">" elsewhere
RECURSIVE IsMarkup(_, _)
IsMarkup(s, in_tag) ==
    IF s = <<>> THEN ~in_tag
    ELSE IF Head(s) = "<" THEN ~in_tag /\ IsMarkup(Tail(s), TRUE)
    ELSE IF Head(s) = ">" THEN in_tag /\ IsMarkup(Tail(s), FALSE)
    ELSE IsMarkup(Tail(s), in_tag)

\* the text between the tags of a markup
RECURSIVE TextOf(_, _)
TextOf(s, in_tag) ==
    IF s = <<>> THEN <<>>
    ELSE IF Head(s) = "<" THEN TextOf(Tail(s), TRUE)
    ELSE IF Head(s) = ">" THEN TextOf(Tail(s), FALSE)
    ELSE IF in_tag THEN TextOf(Tail(s), in_tag)
    ELSE <<Head(s)>> \o TextOf(Tail(s), in_tag)

IsNotWhitespace(c) == ~is_whitespace(c)
Visible(s) == SelectSeq(s, IsNotWhitespace)

HtmlApplied == c_fn \in {"html_to_text", "converter_html_to_text"}
TagsNoEntities(s) == IsMarkup(s, FALSE) /\ "<" \in Symbols(s) /\ "&" \notin Symbols(s)

\* C18: html_to_text (of pop3/server.rs and of pop3/converter.rs) applied
\* to markup that has tags and no entities removes every tag: the result has
\* no "<" and no ">", and it keeps the text between the tags (its visible
\* characters, in order; line breaks and spaces may be added or trimmed).
C18_TagsRemoved ==
    (HtmlApplied /\ TagsNoEntities(c_in)) =>
        /\ "<" \notin Symbols(c_out)
        /\ ">" \notin Symbols(c_out)
        /\ Visible(c_out) = Visible(TextOf(c_in, FALSE))

C18_Witness ==
    /\ c_fn = "html_to_text"
    /\ c_in = Tag(<<"p">>) \o <<"Hello", SP>> \o Tag(<<"b">>) \o <<"world">>
                 \o Tag(<<"/", "b">>) \o <<"!">> \o Tag(<<"/", "p">>)
    /\ c_out = <<"Hello", SP, "world", "!">>

C18_WitnessConverter ==
    /\ c_fn = "converter_html_to_text"
    /\ c_in = <<"Hello">> \o Tag(<<"br">>) \o <<"Hello">>
    /\ c_out = <<"Hello", LF, "Hello">>

\* the character of a standard entity
EntityNames == {"lt", "gt", "amp", "quot", "apos", "#39", "nbsp"}
EntityChar(name) ==
    CASE name = "lt" -> "<"
      [] name = "gt" -> ">"
      [] name = "amp" -> "&"
      [] name = "quot" -> DQUOTE
      [] name \in {"apos", "#39"} -> APOSTROPHE
      [] name = "nbsp" -> SP

\* every entity of the text decoded, once: one pass from the left, and what
\* a decoding produced is not read again
RECURSIVE DecodeOnce(_)
DecodeOnce(s) ==
    IF s = <<>> THEN <<>>
    ELSE IF Len(s) >= 3 /\ s[1] = "&" /\ s[2] \in EntityNames /\ s[3] = ";"
         THEN <<EntityChar(s[2])>> \o DecodeOnce(SubSeq(s, 4, Len(s)))
         ELSE <<Head(s)>> \o DecodeOnce(Tail(s))

\* the whitespace clean-up that ends html_to_text of pop3/converter.rs
Tidy(s) ==
    LET ls == lines(s) IN
    trim(replace(JoinLines([i \in 1..Len(ls) |-> TrimEnd(ls[i])]),
                 <<LF, LF, LF>>, <<LF, LF>>))

NoAngleBrackets(s) == "<" \notin Symbols(s) /\ ">" \notin Symbols(s)

\* C19: html_to_text decodes each standard entity of the text to its
\* character exactly once (a decoded character is not decoded again), after
\* the tags were stripped, so that a decoded `<...>` survives:
\* `&lt;test&gt; &amp; &quot;quotes&quot;` becomes `<test> & "quotes"`.
C19_EntitiesDecodedOnce ==
    (c_fn = "converter_html_to_text" /\ NoAngleBrackets(c_in)) =>
        c_out = Tidy(DecodeOnce(c_in))

\* the example of C19 is converted as the claim says
C19_Example ==
    (c_fn = "converter_html_to_text"
       /\ c_in = Entity("lt") \o <<"test">> \o Entity("gt") \o <<SP>> \o Entity("amp")
                    \o <<SP>> \o Entity("quot") \o <<"quotes">> \o Entity("quot"))
    => c_out = <<"<", "test", ">", SP, "&", SP, DQUOTE, "quotes", DQUOTE>>

(***************************************************************************)
(* Properties of apply_proxy_to_links (SpecProxy).                         *)
(***************************************************************************)
\* the characters that end a URL: whitespace and the brackets "]", "<", ">"
EndsUrl(c) == is_whitespace(c) \/ c \in {"]", "<", ">"}

\* the first position of the run of non-ending characters that holds i
RECURSIVE RunStart(_, _)
RunStart(s, i) ==
    IF i = 1 \/ EndsUrl(s[i - 1]) THEN i ELSE RunStart(s, i - 1)

\* a URL of s starts at position i: a scheme with at least one character
\* after it, not inside a URL that started earlier in the run
UrlStartsAt(s, i) ==
    /\ s[i] \in Schemes
    /\ i < Len(s)
    /\ ~EndsUrl(s[i + 1])
    /\ \A k \in RunStart(s, i)..(i - 1) : s[k] \notin Schemes

UrlStarts(s) == {i \in 1..Len(s) : UrlStartsAt(s, i)}

\* s from position i on, the prefix put in front of each URL
RECURSIVE Prefixed(_, _, _)
Prefixed(s, i, prefix) ==
    IF i > Len(s) THEN <<>>
    ELSE (IF UrlStartsAt(s, i) THEN prefix ELSE <<>>)
         \o <<s[i]>> \o Prefixed(s, i + 1, prefix)

ProxyApplied == c_fn = "apply_proxy_to_links"

\* C20: with a proxy prefix, apply_proxy_to_links rewrites every http:// or
\* https:// URL of the body (a URL runs up to the next whitespace or the
\* next "]", "<" or ">") by putting the prefix in front of it exactly once:
\* the result is the body with the prefix in front of each of its URLs and
\* nothing else changed, so no URL stays without prefix.
C20_EveryUrlPrefixedOnce ==
    ProxyApplied =>
        /\ c_out = Prefixed(c_in, 1, c_arg)
        /\ Len(c_out) = Len(c_in) + Len(c_arg) * Cardinality(UrlStarts(c_in))

C20_Witness ==
    /\ ProxyApplied
    /\ c_in = <<"Check", SP, "this:", SP, "https://", "example.com/path">>
    /\ c_arg = <<"http://", "proxy.com/?url=">>
    /\ c_out = <<"Check", SP, "this:", SP, "http://", "proxy.com/?url=",
                 "https://", "example.com/path">>

\* two URLs in one body, each with the prefix
C20_WitnessTwo ==
    /\ ProxyApplied
    /\ Cardinality(UrlStarts(c_in)) = 2
    /\ Len(c_out) = Len(c_in) + 2 * Len(c_arg)

(***************************************************************************)
(* More properties of html_to_text (SpecHtml).                             *)
(***************************************************************************)
\* plain text: no tag and no entity
PlainText(s) == Symbols(s) \cap {"<", ">", "&"} = {}

\* C21: HTML stripping is idempotent: html_to_text leaves a text that is
\* already plain as it is, and applying html_to_text to its own result
\* changes nothing.
C21_HtmlToTextIdempotent ==
    c_fn = "html_to_text" =>
        /\ PlainText(c_in) => c_out = c_in
        /\ html_to_text(c_out) = c_out

\* the same for html_to_text of pop3/converter.rs
C21_ConverterIdempotent ==
    c_fn = "converter_html_to_text" =>
        /\ PlainText(c_in) => c_out = c_in
        /\ converter_html_to_text(c_out) = c_out

(***************************************************************************)
(* More properties of the POP3 task (SpecPop3): TOP, multi-line replies,   *)
(* malformed commands, a failed fetch.                                     *)
(***************************************************************************)
Min(a, b) == IF a <= b THEN a ELSE b

\* the body lines a TOP reply carries: what follows the header block and the
\* separator
TopBodySent(email, out) ==
    LET sent == lines(out[2].raw)
        rest == SubSeq(sent, Len(HeaderBlock(email)) + 1, Len(sent))
    IN IF rest = <<>> THEN <<>> ELSE Tail(rest)

\* C22: for every valid index i and every n, TOP i n returns the header
\* block and exactly the first min(n, body length) lines of the body; the
\* blank separator is not counted as one of the n lines, and TOP i 0 returns
\* the header block with no body line.
C22_TopExactlyNBodyLines ==
    TopRead =>
        /\ IsTopReply(p_out)
        /\ LET email == p_emails[ValueOf(LastArg)]
               body == BodyLines(email)
           IN /\ IsPrefix(HeaderBlock(email), lines(p_out[2].raw))
              /\ TopBodySent(email, p_out) =
                    SubSeq(body, 1, Min(ValueOf(LastArg2), Len(body)))

\* the replies to the command lines ls, each processed as if it had arrived
\* in a read of its own, in order, up to the line that ends the session
RECURSIVE LineByLine(_, _, _)
LineByLine(ls, emails, post_size) ==
    IF ls = <<>> THEN <<>>
    ELSE LET r == handle_pop3_commands(Ln(Head(ls)), emails, post_size) IN
         r.out \o (IF r.brk THEN <<>> ELSE LineByLine(Tail(ls), emails, post_size))

\* C23: every command line the client sends is processed, in arrival order,
\* and gets its own reply: when several CRLF-terminated commands arrive in
\* one read, the replies are those the lines get when each arrives in a read
\* of its own.
C23_EveryLineProcessed ==
    (p_pc = "transaction" /\ p_in # <<>>) =>
        p_out = LineByLine(lines(p_in), p_emails, p_post_size)


\* the negative status lines of the POP3 engine
NegativeReplies ==
    {W(f, <<>>) : f \in {"-ERR unknown command", "-ERR no such message",
                         "-ERR invalid message number",
                         "-ERR no message specified",
                         "-ERR invalid parameters", "-ERR missing parameters"}}

\* the last read is a login command without its argument, or a PASS that
\* did not complete the login (no username was captured before it)
MalformedLogin ==
    /\ p_pc = "login"
    /\ LastVerb.some
    /\ LastVerb.v \in {<<"USER">>, <<"PASS">>}
    /\ ~LastArg.some \/ LastVerb.v = <<"PASS">>

\* the last read is a message command whose argument is missing or is not
\* a number (LIST and UIDL without argument are the full listings)
MalformedTransaction ==
    /\ p_pc = "transaction"
    /\ LastVerb.some
    /\ \/ LastVerb.v \in {<<"RETR">>, <<"TOP">>} /\ ~IsNumeral(LastArg)
       \/ LastVerb.v = <<"TOP">> /\ ~IsNumeral(LastArg2)
       \/ LastVerb.v \in {<<"LIST">>, <<"UIDL">>}
            /\ LastArg.some /\ ~IsNumeral(LastArg)

\* C24: a command the server has read and that left the connection open has
\* a reply; when the command is malformed (USER or PASS without argument,
\* PASS before a username, LIST/RETR/UIDL/TOP with a missing or non-numeric
\* argument) the reply is one negative status line.
C24_MalformedCommandGetsErr ==
    (p_pc \in {"login", "transaction"} /\ p_in # <<>>) =>
        /\ p_out # <<>>
        /\ (MalformedLogin \/ MalformedTransaction) =>
              Len(p_out) = 1 /\ p_out[1] \in NegativeReplies


\* the last SMTP read, as the command loop splits it
SmtpLastVerb == next_part(split_whitespace(s_in), 1)
SmtpServed(v) == s_pc = "command" /\ SmtpLastVerb = Some(<<v>>)

\* positions of a byte in a command, and the address of a MAIL FROM: the
\* text strictly between the first `<` and the first `>` after it; there is
\* none without a `<`, without a `>` after it, or with a `>` before the `<`
Positions(command, b) == {i \in 1..Len(command) : command[i] = b}
Least(S) == CHOOSE i \in S : \A j \in S : i <= j
AddressParses(command) ==
    /\ Positions(command, "<") # {}
    /\ Positions(command, ">") # {}
    /\ Least(Positions(command, "<")) < Least(Positions(command, ">"))
AddressOf(command) ==
    LET open == Least(Positions(command, "<"))
        close == Least({j \in Positions(command, ">") : j > open})
    IN SubSeq(command, open + 1, close - 1)

\* C25: MAIL FROM is always answered 250 OK; the stored sender is then the
\* text strictly between the first `<` and the first `>` after it, and it is
\* empty when the address does not parse, whatever an earlier MAIL FROM on
\* the connection stored.
C25_MailFromSender ==
    SmtpServed("MAIL") =>
        /\ s_out = <<SmtpOk>>
        /\ s_from = IF AddressParses(s_in) THEN AddressOf(s_in) ELSE <<>>


\* C26: the Data state (354 and message accumulation) is entered only in a
\* transaction that has already had a MAIL FROM, and when the Data state is
\* left the engine is back in command mode, where a new MAIL FROM is taken.
C26_DataOnlyAfterMailFrom ==
    /\ [](s_pc = "data" => s_mail)
    /\ [][(s_pc = "data" /\ s_pc' # "data") => s_pc' = "command"]_vars


\* the verb of the command a step of the SMTP command loop reads
SmtpCommandRead == s_pc = "command" /\ s_in' # <<>>
SmtpReadVerb == next_part(split_whitespace(s_in'), 1)
SenderKeepers ==
    {Some(<<"MAIL">>), Some(<<"RSET">>), Some(<<"DATA">>), Some(<<"QUIT">>)}

\* C27: RSET is answered 250 OK and empties the stored sender; HELO, EHLO,
\* RCPT, NOOP and unknown verbs are answered and leave the stored sender as
\* it was; RCPT is answered 250 OK whatever its recipient and whatever came
\* before it.
C27_RsetClearsOthersKeepSender ==
    [][SmtpCommandRead =>
        /\ SmtpReadVerb = Some(<<"RSET">>) =>
              s_out' = <<SmtpOk>> /\ s_from' = <<>> /\ s_pc' = "command"
        /\ SmtpReadVerb = Some(<<"RCPT">>) => s_out' = <<SmtpOk>>
        /\ SmtpReadVerb \notin SenderKeepers =>
              s_out' # <<>> /\ s_from' = s_from /\ s_pc' = "command"]_vars

\* RSET was served and the sender is empty; RCPT was served outside a
\* transaction while a sender from an earlier one is stored
C27_Witness == SmtpServed("RSET") /\ s_from = <<>> /\ s_out = <<SmtpOk>>
C27_WitnessRcpt ==
    SmtpServed("RCPT") /\ s_from # <<>> /\ s_out = <<SmtpOk>> /\ ~s_mail


ErrFailedToFetch == W("-ERR Failed to fetch messages", <<>>)
FetchFailed == p_pc = "closed" /\ p_out = <<ErrFailedToFetch>>

\* C28: when verify succeeded and fetch_timeline fails, the session ends with
\* exactly one -ERR reply: the step that leaves the fetch without a mailbox
\* writes one `-ERR Failed to fetch messages` (never the MESSAGES FETCHED
\* line), builds no mailbox and closes the session, and after it nothing is
\* read, answered or fetched again.
C28_FetchFailureCloses ==
    [][/\ (p_pc = "fetch" /\ p_pc' # "transaction") =>
              /\ p_pc' = "closed"
              /\ p_out' = <<ErrFailedToFetch>>
              /\ p_timeline' = <<>>
              /\ p_emails' = <<>>
       /\ FetchFailed => UNCHANGED pop3Vars]_vars

C28_Witness ==
    /\ FetchFailed
    /\ p_cred.username # <<>>
    /\ p_cred.password # <<>>
    /\ p_emails = <<>>
    /\ p_listed = {}


\* the last read of a task carries the line QUIT
HasQuitLine(in) == \E i \in 1..Len(lines(in)) : lines(in)[i] = <<"QUIT">>

\* C29: a connection task terminates once its client has sent QUIT or has
\* closed its side, in every state of the session: POP3 before and after
\* authentication, SMTP command mode and SMTP Data mode (where a line QUIT
\* is message content, so that the client ends the task by closing).
C29_TaskTerminates ==
    /\ [](p_peer = "closed" \/ HasQuitLine(p_in) => <>(p_pc = "closed"))
    /\ [](s_peer = "closed" \/ (s_pc # "data" /\ HasQuitLine(s_in)) =>
            <>(s_pc = "closed"))

\* a task whose client has closed its side terminates, whatever its state
C29_PeerCloseTerminates ==
    /\ [](p_peer = "closed" => <>(p_pc = "closed"))
    /\ [](s_peer = "closed" => <>(s_pc = "closed"))

\* a read whose verb is QUIT ends the task, outside the Data state
C29_QuitCommandTerminates ==
    [][/\ (p_pc \in {"login", "transaction"}
            /\ next_part(split_whitespace(p_in'), 1) = Some(<<"QUIT">>)) =>
              p_pc' = "closed"
       /\ (s_pc = "command"
            /\ next_part(split_whitespace(s_in'), 1) = Some(<<"QUIT">>)) =>
              s_pc' = "closed"]_vars


\* the bytes of a reply on the wire (a formatted line stands as one symbol
\* before its CRLF), and the lines they make
WireBytes(out) ==
    Concat([k \in 1..Len(out) |->
                IF out[k].fmt = "raw" THEN out[k].raw ELSE Ln(<<out[k].fmt>>)])
WireLines(out) == lines(WireBytes(out))

\* the last read was answered with a multi-line response
MultiLineServed ==
    \/ (Served("LIST") \/ Served("UIDL")) /\ ~LastArg.some
    \/ Served("CAPA")
    \/ Served("RETR") /\ ValidIndex(LastArg)
    \/ TopRead

\* C30: every multi-line response (LIST and UIDL without argument, CAPA,
\* RETR, TOP) ends with a line that is only `.`, and no other line of the
\* response is only `.`, also when a line of the message is `.`.
C30_OnlyTerminatorIsDotLine ==
    MultiLineServed =>
        LET ls == WireLines(p_out) IN
        /\ ls # <<>>
        /\ ls[Len(ls)] = <<".">>
        /\ \A i \in 1..(Len(ls) - 1) : ls[i] # <<".">>


\* a message was built by one of the two conversions
Built == c_fn \in {"convert_mastodon_post_to_email",
                   "converter::convert_mastodon_post_to_email"}
BuiltForMailbox == c_fn = "convert_mastodon_post_to_email"

\* a subject without the tag `mop3 ` the server puts before it
Untagged(subject) ==
    IF subject # <<>> /\ Head(subject) = "mop3 " THEN Tail(subject) ELSE subject

\* the bodies a message has
Bodies(message) ==
    {b \in {message.text_body, message.html_body} : b.some}

\* C31: the email the mailbox gets for a boost takes its body from the
\* boosted status and has the subject `Boost from <author>` with the author
\* of the boosted status; for any other status the body is the status's own
\* and the subject is `Post` (a leading tag `mop3 ` of the subject apart).
C31_BoostBodyAndSubject ==
    Built =>
        LET source == IF c_in.reblog.some THEN c_in.reblog.v ELSE c_in
            content == converted_content(source.content, cfg)
        IN /\ Untagged(c_out.subject) =
                             IF c_in.reblog.some
                              THEN <<"Boost from ">> \o source.display_name
                              ELSE <<"Post">>
           /\ Bodies(c_out) # {}
           /\ \A b \in Bodies(c_out) : IsPrefix(content, b.v)

\* the conversion of pop3/converter.rs does what C31 says
C31_ConverterOnly ==
    c_fn = "converter::convert_mastodon_post_to_email" => C31_BoostBodyAndSubject


\* C32: a converted email has exactly one body kind, the HTML body when
\* HTML rendering is enabled and the text body otherwise, never both, for
\* every status (those with media references included) under every
\* combination of the html, attachment and inline options.
C32_ExactlyOneBodyKind ==
    Built =>
        /\ c_out.html_body.some <=> cfg.html
        /\ c_out.text_body.some <=> ~cfg.html

\* the conversion of pop3/converter.rs does what C32 says
C32_ConverterOnly ==
    c_fn = "converter::convert_mastodon_post_to_email" => C32_ExactlyOneBodyKind


\* the lengths of the runs of newlines of a text
NewlineRunAt(s, i, n) ==
    /\ i + n - 1 <= Len(s)
    /\ \A k \in i..(i + n - 1) : s[k] = LF
HasNewlineRun(s, n) == \E i \in 1..Len(s) : NewlineRunAt(s, i, n)

\* C33: the output of html_to_text has no three consecutive newlines (a
\* run of three or more, of any length, is collapsed to two) and has no
\* leading or trailing whitespace.
C33_NewlineRunsCollapsed ==
    c_fn = "converter_html_to_text" =>
        /\ ~HasNewlineRun(c_out, 3)
        /\ c_out = trim(c_out)

\* a run of exactly three newlines is collapsed to two
C33_RunOfThree ==
    (c_fn = "converter_html_to_text" /\ c_in = Breaks(3)) =>
        c_out = <<"Hello", LF, LF, "world">>


\* the states of a session in which authentication has not completed
PreAuth == p_pc \in {"banner", "login", "verify", "fetch"}

\* the verbs of the mailbox commands
MailboxVerbs ==
    {<<"STAT">>, <<"LIST">>, <<"RETR">>, <<"TOP">>, <<"UIDL">>, <<"DELE">>,
     <<"CAPA">>, <<"NOOP">>, <<"RSET">>}

\* what the server writes before it has a mailbox
PreAuthReplies ==
    {POP3_BANNER, W("+OK send PASS", <<>>), ErrUnknownCommand}

\* C34: no mailbox command is served before authentication completes: until
\* USER and PASS are captured and verify and fetch_timeline have succeeded,
\* there is no mailbox, a mailbox command is answered with one -ERR line and
\* nothing the server writes is mailbox data; the first thing written on a
\* connection is the greeting `+OK MOP3 ready`, before anything is read.
C34_NoMailboxCommandBeforeAuth ==
    /\ PreAuth =>
          /\ p_emails = <<>> /\ p_timeline = <<>> /\ p_listed = {}
          /\ \A k \in 1..Len(p_out) : p_out[k] \in PreAuthReplies
          /\ (p_in # <<>> /\ LastVerb.some /\ LastVerb.v \in MailboxVerbs) =>
                p_out = <<ErrUnknownCommand>>
    /\ p_pc = "banner" => p_in = <<>> /\ p_out = <<>>
    /\ (p_pc = "login" /\ p_in = <<>>) => p_out = <<POP3_BANNER>>

\* RETR 1 was sent after USER and before PASS, and answered -ERR
C34_Witness ==
    /\ p_pc = "login"
    /\ p_cred.username # <<>>
    /\ LastVerb = Some(<<"RETR">>)
    /\ p_out = <<ErrUnknownCommand>>


\* the verb of the command read by the step
SentVerb == next_part(split_whitespace(p_in'), 1)

\* C35: the login completes only at a PASS that carries a password and is
\* read after a username was captured; the credentials handed on are then
\* the username of the most recent USER and the password of that PASS (under
\* the configured account and token).  A PASS read before any USER does not
\* complete the login, and neither does the USER that follows it.  A QUIT
\* before authentication ends the session: no verify and no fetch follows.
C35_LoginCompletesAtPass ==
    [][/\ (p_pc = "login" /\ p_pc' = "verify") =>
              /\ SentVerb = Some(<<"PASS">>)
              /\ SentArg.some /\ SentArg.v # <<>>
              /\ p_cred.username # <<>>
              /\ p_cred' = final_cred([username |-> p_cred.username,
                                       password |-> SentArg.v], cfg)
       /\ (p_pc = "login" /\ p_pc' = "login") =>
              p_cred'.username =
                  IF SentVerb = Some(<<"USER">>) /\ SentArg.some
                  THEN SentArg.v ELSE p_cred.username
       /\ (p_pc = "login" /\ SentVerb = Some(<<"QUIT">>)) => p_pc' = "closed"
       /\ p_pc = "closed" => p_pc' = "closed"]_vars

\* a PASS came before the USER: both are captured and the login goes on
C35_Witness ==
    /\ p_pc = "login"
    /\ LastVerb = Some(<<"USER">>)
    /\ p_cred.username # <<>>
    /\ p_cred.password # <<>>


\* a step of the DATA loop that reads bytes
DataRead == s_pc = "data" /\ s_in' # <<>>

\* C36: in the Data state the lines read are only accumulated: a line that
\* spells a command (QUIT, RSET, MAIL FROM:<x>) is appended to the message,
\* gets no reply, does not close the connection and leaves the stored sender
\* alone; a DATA command gets two replies, the 354 when the Data state is
\* entered and one final status when the terminator has been read.
C36_DataLinesOnlyAccumulated ==
    [][/\ (DataRead /\ trim(s_in') # <<".">> /\ ~HasDotLine(lines(s_in'))) =>
              /\ s_pc' = "data"
              /\ s_out' = <<>>
              /\ s_from' = s_from
              /\ s_email_data' = s_email_data \o s_in'
       /\ (s_pc = "command" /\ s_pc' = "data") => s_out' = <<SmtpSendMessage>>
       /\ (DataRead /\ HasDotLine(lines(s_in'))) =>
              s_pc' = "command" /\ s_out' = <<SmtpOk>>
       /\ (s_pc = "data" /\ s_pc' # "data") =>
              s_pc' = "command" /\ s_out' = <<SmtpOk>>]_vars

\* the part of C36 about the lines that are no terminator: they are appended
\* without a reply, and the Data state is entered with 354 and left with
\* 250 OK
C36_AccumulationOnly ==
    [][/\ (DataRead /\ trim(s_in') # <<".">>) =>
              /\ s_pc' = "data"
              /\ s_out' = <<>>
              /\ s_from' = s_from
              /\ s_email_data' = s_email_data \o s_in'
       /\ (s_pc = "command" /\ s_pc' = "data") => s_out' = <<SmtpSendMessage>>
       /\ (s_pc = "data" /\ s_pc' # "data") =>
              s_pc' = "command" /\ s_out' = <<SmtpOk>>]_vars


\* C37: the stored sender belongs to one transaction: when no MAIL command
\* has been read since the greeting, the last RSET or the last completed
\* message, the sender is empty, so that a message sent after another
\* without a MAIL FROM of its own does not have the sender of the first.
C37_SenderScopedToTransaction == ~s_mail => s_from = <<>>


\* the timeline the mailbox was built from has posts, all of them Bluesky
OnlyBluesky ==
    /\ p_pc = "transaction"
    /\ p_timeline # <<>>
    /\ \A i \in 1..Len(p_timeline) : p_timeline[i].variant = "Bluesky"

\* the mailbox holds an email per converted Mastodon post, and nothing else
OnlyMastodonEmails ==
    /\ Len(p_emails) = Cardinality(Converted(p_timeline))
    /\ \A i \in Converted(p_timeline) :
          p_emails[Rank(p_timeline, i)] = Rendered(p_timeline[i].content)

C38_WitnessStat ==
    OnlyBluesky /\ Served("STAT") /\ p_out = <<W("+OK {} {}", <<0, 0>>)>>
C38_WitnessMixed ==
    /\ p_pc = "transaction"
    /\ Len(p_timeline) = 2
    /\ p_timeline[1].variant = "Bluesky"
    /\ p_emails = <<Rendered(2)>>

====
